---- MODULE Spec2Model ----
(***************************************************************************)
(* telegramreceiver: the long-polling client (LongPollingClient) as a      *)
(* state machine.  Start, Stop and pollLoop are modelled at the level of   *)
(* their shared-memory operations: the atomic running flag, the plain int  *)
(* offset, the atomic consecutive-error counter, stopCh with its           *)
(* sync.Once guard, and the WaitGroup.  Every Start call s owns the poll   *)
(* loop it spawns, so loops are indexed by the Start call that made them.  *)
(***************************************************************************)
EXTENDS Integers, Sequences, FiniteSets, TLC

\* ---------------------------------------------------------------- bounds
MaxPolls == 2      \* fetchUpdates calls over all loops, life-cycle runs
MaxPollsOne == 4   \* fetchUpdates calls of the single loop of PollSpec
MaxPollsLive == 1  \* fetchUpdates calls explored by LiveSpec
MaxId == 2         \* update ids the platform hands out are 1..MaxId
SinkCap == 1       \* capacity of the updates channel

\* breakerMaxRequests as passed to NewLongPollingClient (a caller's choice)
breakerMaxRequests == 1

\* WithMaxErrors: unlimited (0) or a ceiling of two consecutive errors
MaxErrorsChoices == {0, 2}

\* cfg.DrainDelay and cfg.ShutdownTimeout in clock ticks, the health
\* probes sent to the server and the webhook requests in flight at once
DrainDelay == 2
ShutdownTimeout == 2
MaxProbes == 2
MaxConns == 1

\* calculateBackoff is applied to the error counts 1..MaxAttempt
MaxAttempt == 3

\* defaultRetryInitialDelay (1 s), defaultRetryMaxDelay (60 s) and
\* defaultRetryBackoffFactor (2.0)
defaultRetryInitialDelay == 8
defaultRetryMaxDelay == 480
defaultRetryBackoffFactor == 20

\* The arguments WithRetryConfig is called with: 0 and the factor 1.0 are
\* the values the option ignores.
InitialDelayArgs == {0, 4, 20}
MaxDelayArgs == {0, 30, 50}
BackoffFactorArgs == {10, 11, 20}

\* The Start() and the Stop() calls made over the life of one client
Starters == {1, 2}
Stoppers == {1, 2}
Ids == 1..MaxId

\* The batches a getUpdates response can carry: every sequence of at most
\* two ids, in any order.
Batches == {<<>>} \cup {<<a>> : a \in Ids} \cup {<<a, b>> : a \in Ids, b \in Ids}

\* A batch the platform returns pre-ordered by id.
Sorted(b) == \A i, j \in 1..Len(b) : i < j => b[i] < b[j]

\* The ways a poll can end (fetchUpdates): a transport error, a non-200
\* status, a 200 whose body does not decode, a 200 carrying ok=false, and a
\* 200 carrying ok=true with a batch.
FailKinds == {"network", "status", "decode", "notok"}

\* The error_code of a response carrying ok=false: 401 (Unauthorized: the
\* token is revoked) and 429 (Too Many Requests).
ErrorCodes == {401, 429}

\* The codes an outcome of the given kind can carry (0: no error_code).
CodesOf(kind) == IF kind = "notok" THEN ErrorCodes ELSE {0}

Failures(kinds) ==
    UNION {[kind : {k}, result : {<<>>}, code : CodesOf(k)] : k \in kinds}

Successes(batches) == [kind : {"ok"}, result : batches, code : {0}]

Outcomes == Failures(FailKinds) \cup Successes(Batches)

\* The RPC carries the loop's ctx: once it is cancelled the call fails.
CancelledOutcomes == Failures({"network"})

\* The error fetchUpdates returns, a *TelegramAPIError: Code is set only
\* from the error_code of a decoded response with ok=false; a failure of
\* breaker.Execute (transport error, non-200 status, open breaker) and a
\* decode failure wrap their cause with Code 0.
NoError == [Code |-> 0, Description |-> "nil"]
RequestFailed == [Code |-> 0, Description |-> "request failed"]
ParseFailed == [Code |-> 0, Description |-> "failed to parse response"]
Rejected(code) == [Code |-> code, Description |-> "description"]

ErrorOf(o) ==
    IF o.kind \in {"network", "status"} THEN RequestFailed
    ELSE IF o.kind = "decode" THEN ParseFailed
    ELSE IF o.kind = "notok" THEN Rejected(o.code)
    ELSE NoError

\* TelegramAPIError.IsRetryable
IsRetryable(e) == e.Code = 429 \/ (e.Code >= 500 /\ e.Code <= 504)

VARIABLES
    maxErrors,            \* c.maxErrors (0 = unlimited)
    deleteWebhookOnStart, \* c.deleteWebhookOnStart
    running,              \* c.running (atomic.Bool)
    offset,               \* c.offset (plain int)
    consecutiveErrors,    \* c.consecutiveErrors (atomic.Int32)
    stopChClosed,         \* stopCh has been closed
    closeOnce,            \* c.closeOnce has run its function
    closeCount,           \* executions of close(c.stopCh); 2 is the panic
    wg,                   \* c.wg counter
    updates,              \* the updates channel (the Sink), a queue of ids
    brState,              \* polling breaker: "closed", "open", "halfopen"
    brCounts,             \* polling breaker: gobreaker.Counts
    ctxDone,              \* ctxDone[s]: the ctx given to Start call s is cancelled
    startPc,              \* position of Start call s
    startRes,             \* what Start call s returned
    stopPc,               \* position of Stop call t
    loopPc,               \* position of the poll loop spawned by Start call s
    batch,                \* batch[s]: updates of the current poll still to process
    advance,              \* advance[s]: result of "update.UpdateID >= c.offset"
    stale,                \* stale[s]: the breaker changed generation during the RPC
    fatal,                \* fatal[s]: the loop returned because of maxErrors
    polls,                \* fetchUpdates calls made so far
    retIncr,              \* the ids returned so far were strictly increasing
    lastRet,              \* the last id a poll returned (0: none yet)
    reqOffset,            \* reqOffset[s]: the offset in the URL of the RPC in flight (else 0)
    lastErr,              \* lastErr[s]: the err of the iteration while the loop sleeps on it
    orderly,              \* every batch so far was sorted, with ids >= the offset asked
    lastSent,             \* the last id placed on the updates channel (0: none yet)
    stopSince             \* stopSince[s]: Stop() was in progress at, or called after, Start call s's CompareAndSwap

cfgVars == <<maxErrors, deleteWebhookOnStart>>
clientVars == <<running, offset, consecutiveErrors, stopChClosed, closeOnce,
                closeCount, wg, updates>>
brVars == <<brState, brCounts>>
startVars == <<startPc, startRes>>
loopVars == <<loopPc, batch, advance, stale, fatal, reqOffset, lastErr, lastErr>>
histVars == <<polls, retIncr, lastRet, orderly, lastSent>>
pollVars == <<cfgVars, clientVars, brVars, ctxDone, startVars, stopPc, loopVars,
              histVars, stopSince>>

\* The state of the webhook handler (WebhookHandler).
VARIABLES
    allowedDomain,   \* wh.allowedDomain ("" = no host check)
    webhookSecret,   \* wh.webhookSecret ("" = no secret check)
    tokens,          \* tokens in wh.limiter's bucket
    instFull,        \* the bucket was full when the current instant began
    instCalls,       \* limiter.Allow() calls in the current instant
    whBrState,       \* wh.breaker: "closed", "open", "halfopen"
    whBrCounts,      \* wh.breaker: gobreaker.Counts
    bufData,         \* bufData[b]: the bytes last read into pool buffer b
    whUpdates,       \* wh.Updates (the Sink), a queue of TelegramUpdate
    whPc,            \* position of goroutine r in ServeHTTP
    whReq,           \* the request goroutine r is serving
    whBuf,           \* the pool buffer goroutine r holds (0: none)
    whErr,           \* the error the guarded function returned
    whResp,          \* the status written to the response (0: none yet)
    whStale,         \* the breaker changed generation during the request
    placed,          \* the updates the current request placed on the Sink
    inBurst,         \* the request was among the first WhBurst of a full bucket
    served           \* requests that have arrived so far

whCfgVars == <<allowedDomain, webhookSecret>>
limiterVars == <<tokens, instFull, instCalls>>
whBrVars == <<whBrState, whBrCounts, whStale>>
reqVars == <<whPc, whReq, whBuf, whErr, whResp, placed, inBurst, served>>
whVars == <<whCfgVars, limiterVars, whBrVars, bufData, whUpdates, reqVars>>

\* A caller of the accessors of the polling client, on a goroutine of its
\* own (a health check).
VARIABLES
    obsPc,           \* the accessor the caller is inside ("idle": none)
    obsVal           \* what the last accessor call returned

obsVars == <<obsPc, obsVal>>

\* The retry configuration of the polling client and the calls of
\* calculateBackoff made for a run of consecutive errors.  Durations are
\* in ticks of 1/8 s; the factor is in tenths (20 is 2.0).
VARIABLES
    retryInitialDelay,   \* c.retryInitialDelay
    retryMaxDelay,       \* c.retryMaxDelay
    retryBackoffFactor,  \* c.retryBackoffFactor
    attempt,             \* the error count of the last calculateBackoff call (0: none)
    delay,               \* what that call returned
    prevDelay            \* what the call before it returned

retryVars == <<retryInitialDelay, retryMaxDelay, retryBackoffFactor>>
backoffVars == <<attempt, delay, prevDelay>>

\* StartWebhookServer: the call, the server goroutine, the process context
\* and the clients of the server (health probes and webhook requests).
VARIABLES
    srvPc,           \* where the call of StartWebhookServer is ("idle": not called)
    srvResult,       \* what the call returned ("none": not yet)
    srvCtxDone,      \* ctx is cancelled
    isShuttingDown,  \* state.isShuttingDown
    listener,        \* the listener of server.ListenAndServeTLS
    drainClock,      \* ticks slept in time.Sleep(cfg.DrainDelay)
    shutdownClock,   \* ticks spent in server.Shutdown(shutdownCtx)
    conns,           \* requests in flight on "/"
    probes,          \* health probes answered so far
    probePath,       \* the path of the last probe ("": none)
    probeStatus      \* the status it was answered with (0: none)

srvVars == <<srvPc, srvResult, srvCtxDone, isShuttingDown, listener, drainClock,
             shutdownClock, conns, probes, probePath, probeStatus>>
\* The high-level Client in long-polling mode: its Start and Stop calls,
\* and the LongPollingClient that every startPolling constructs (the
\* client constructed by Start call k is client k).
VARIABLES
    pollingClient,   \* c.pollingClient: the client constructed last (0: nil)
    cStartPc,        \* position of Client.Start call k
    cStartRes,       \* what Client.Start call k returned
    cCtxDone,        \* the ctx given to Client.Start call k is cancelled
    cStopPc,         \* position of Client.Stop call t
    cStopTarget,     \* the client Client.Stop call t loaded from c.pollingClient
    instRunning,     \* the running flag of client k
    instStopCh,      \* stopCh of client k is closed
    instLoop,        \* position of the poll loop of client k
    feed             \* c.updates: for every update placed, the client whose loop placed it

cliVars == <<pollingClient, cStartPc, cStartRes, cCtxDone, cStopPc, cStopTarget,
             instRunning, instStopCh, instLoop, feed>>

extVars == <<obsVars, retryVars, backoffVars, srvVars, cliVars>>

vars == <<pollVars, whVars, extVars>>

\* ------------------------------------------------- gobreaker (as configured)
ZeroCounts == [Requests |-> 0, TotalSuccesses |-> 0, TotalFailures |-> 0,
               ConsecutiveSuccesses |-> 0, ConsecutiveFailures |-> 0]

\* ReadyToTrip looking at the failure ratio alone, without the minimum of
\* three requests.
ReadyToTrip_NoMinimum(counts) ==
    counts.Requests >= 1 /\ 10 * counts.TotalFailures >= 6 * counts.Requests

\* ReadyToTrip of NewLongPollingClient: float64(TotalFailures)/float64(Requests)
\* >= 0.6 with Requests >= 3, in integers.
ReadyToTrip(counts) ==
    counts.Requests >= 3 /\ 10 * counts.TotalFailures >= 6 * counts.Requests

\* Counts.onRequest / onSuccess / onFailure
OnRequest(counts) == [counts EXCEPT !.Requests = @ + 1]
OnSuccess(counts) == [counts EXCEPT !.TotalSuccesses = @ + 1,
                                    !.ConsecutiveSuccesses = @ + 1,
                                    !.ConsecutiveFailures = 0]
OnFailure(counts) == [counts EXCEPT !.TotalFailures = @ + 1,
                                    !.ConsecutiveFailures = @ + 1,
                                    !.ConsecutiveSuccesses = 0]

\* A loop is inside breaker.Execute, its request counted and in flight.
InFlight(s) == loopPc[s] = "rpc"

\* setState / toNewGeneration: the counts are cleared and the requests in
\* flight belong to an old generation, so their outcome is not counted;
\* `done` are the loops whose request is the one just finishing.
NewGeneration(to, done) ==
    /\ brState' = to
    /\ brCounts' = ZeroCounts
    /\ stale' = [s \in Starters |-> InFlight(s) /\ s \notin done]

\* beforeRequest: Open rejects (ErrOpenState), HalfOpen rejects once
\* maxRequests trial requests are counted (ErrTooManyRequests).
BreakerRejects ==
    \/ brState = "open"
    \/ brState = "halfopen" /\ brCounts.Requests >= breakerMaxRequests

\* afterRequest(generation, success) of the request of loop s.
AfterRequest(s, success) ==
    IF stale[s]
    THEN UNCHANGED <<brState, brCounts>> /\ stale' = [stale EXCEPT ![s] = FALSE]
    ELSE IF success
    THEN IF brState = "halfopen"
              /\ OnSuccess(brCounts).ConsecutiveSuccesses >= breakerMaxRequests
         THEN NewGeneration("closed", {s})
         ELSE /\ brCounts' = OnSuccess(brCounts)
              /\ UNCHANGED <<brState, stale>>
    ELSE IF brState = "halfopen" \/ ReadyToTrip(OnFailure(brCounts))
         THEN NewGeneration("open", {s})
         ELSE /\ brCounts' = OnFailure(brCounts)
              /\ UNCHANGED <<brState, stale>>

\* currentState: in Closed the rolling Interval has elapsed, the counts are
\* cleared and a new generation begins.
BreakerIntervalExpire ==
    /\ brState = "closed"
    /\ brCounts # ZeroCounts
    /\ NewGeneration("closed", {})
    /\ UNCHANGED <<whVars, extVars, stopSince, cfgVars, clientVars, ctxDone, startVars, stopPc, loopPc,
                   batch, advance, fatal, reqOffset, lastErr,
                   histVars>>

\* currentState: in Open the Timeout has elapsed, the breaker turns HalfOpen.
BreakerTimeoutExpire ==
    /\ brState = "open"
    /\ NewGeneration("halfopen", {})
    /\ UNCHANGED <<whVars, extVars, stopSince, cfgVars, clientVars, ctxDone, startVars, stopPc, loopPc,
                   batch, advance, fatal, reqOffset, lastErr,
                   histVars>>

\* ------------------------------------------------------------- observers
Running == running
ConsecutiveErrors == consecutiveErrors
Offset == offset
\* IsHealthy comparing with <= instead of <.
IsHealthy_OffByOne ==
    IF maxErrors = 0
    THEN running
    ELSE running /\ consecutiveErrors <= maxErrors

IsHealthy ==
    IF maxErrors = 0
    THEN running
    ELSE running /\ consecutiveErrors < maxErrors

\* ------------------------------------------------------------------ Start
\* Start with the CompareAndSwap replaced by a plain Store(true).
\* A Stop() call is between its CompareAndSwap and its return.
StopInProgress == \E t \in Stoppers : stopPc[t] \in {"close", "wait"}

StartCAS_NoSwap(s) ==
    /\ startPc[s] = "idle"
    /\ s > 1 => startPc[s - 1] # "idle"
    /\ stopSince' = [stopSince EXCEPT ![s] = StopInProgress]
    /\ running' = TRUE
    /\ startPc' = [startPc EXCEPT ![s] =
                      IF deleteWebhookOnStart THEN "delete" ELSE "spawn"]
    /\ UNCHANGED <<whVars, extVars, cfgVars, offset, consecutiveErrors, stopChClosed, closeOnce,
                   closeCount, wg, updates, brVars, ctxDone, stopPc, loopVars,
                   histVars, startRes>>

\* c.running.CompareAndSwap(false, true)
StartCAS(s) ==
    /\ startPc[s] = "idle"
    /\ s > 1 => startPc[s - 1] # "idle"
    /\ stopSince' = [stopSince EXCEPT ![s] = StopInProgress]
    /\ IF running
       THEN /\ startPc' = [startPc EXCEPT ![s] = "ret"]
            /\ startRes' = [startRes EXCEPT ![s] = "ErrPollingAlreadyRunning"]
            /\ UNCHANGED running
       ELSE /\ running' = TRUE
            /\ startPc' = [startPc EXCEPT ![s] =
                              IF deleteWebhookOnStart THEN "delete" ELSE "spawn"]
            /\ UNCHANGED startRes
    /\ UNCHANGED <<whVars, extVars, cfgVars, offset, consecutiveErrors, stopChClosed, closeOnce,
                   closeCount, wg, updates, brVars, ctxDone, stopPc, loopVars,
                   histVars>>

\* Start returning the deleteWebhook error without running.Store(false).
StartDeleteWebhook_NoStore(s) ==
    /\ startPc[s] = "delete"
    /\ \E ok \in IF ctxDone[s] THEN {FALSE} ELSE BOOLEAN :
          IF ok
          THEN /\ startPc' = [startPc EXCEPT ![s] = "spawn"]
               /\ UNCHANGED <<running, startRes>>
          ELSE /\ UNCHANGED running
               /\ startPc' = [startPc EXCEPT ![s] = "ret"]
               /\ startRes' = [startRes EXCEPT ![s] = "ErrDeleteWebhook"]
    /\ UNCHANGED <<whVars, extVars, stopSince, cfgVars, offset, consecutiveErrors, stopChClosed, closeOnce,
                   closeCount, wg, updates, brVars, ctxDone, stopPc, loopVars,
                   histVars>>

\* DeleteWebhookWithClient returns; on failure running.Store(false) and the
\* wrapped error is returned.  A cancelled ctx makes the call fail.
StartDeleteWebhook(s) ==
    /\ startPc[s] = "delete"
    /\ \E ok \in IF ctxDone[s] THEN {FALSE} ELSE BOOLEAN :
          IF ok
          THEN /\ startPc' = [startPc EXCEPT ![s] = "spawn"]
               /\ UNCHANGED <<running, startRes>>
          ELSE /\ running' = FALSE
               /\ startPc' = [startPc EXCEPT ![s] = "ret"]
               /\ startRes' = [startRes EXCEPT ![s] = "ErrDeleteWebhook"]
    /\ UNCHANGED <<whVars, extVars, stopSince, cfgVars, offset, consecutiveErrors, stopChClosed, closeOnce,
                   closeCount, wg, updates, brVars, ctxDone, stopPc, loopVars,
                   histVars>>

\* c.wg.Add(1); go c.pollLoop(ctx)
StartSpawn(s) ==
    /\ startPc[s] = "spawn"
    /\ wg' = wg + 1
    /\ loopPc' = [loopPc EXCEPT ![s] = "check"]
    /\ startPc' = [startPc EXCEPT ![s] = "spawned"]
    /\ UNCHANGED <<whVars, extVars, stopSince, cfgVars, running, offset, consecutiveErrors, stopChClosed,
                   closeOnce, closeCount, updates, brVars, ctxDone, startRes,
                   stopPc, batch, advance, stale, fatal, reqOffset, lastErr,
                   histVars>>

\* return nil
StartReturn(s) ==
    /\ startPc[s] = "spawned"
    /\ startPc' = [startPc EXCEPT ![s] = "ret"]
    /\ startRes' = [startRes EXCEPT ![s] = "nil"]
    /\ UNCHANGED <<whVars, extVars, stopSince, cfgVars, clientVars, brVars, ctxDone, stopPc, loopVars,
                   histVars>>

\* The caller cancels the ctx it gave to Start call s.  Nothing reads the
\* ctx before the CompareAndSwap of the call, so a ctx cancelled before the
\* call is the ctx cancelled right after it; and a cancellation nobody can
\* observe any more (the call failed, the loop is returning) is left out.
CtxObserved(s) ==
    \/ startPc[s] \in {"delete", "spawn", "spawned"}
    \/ loopPc[s] \in {"check", "rpc", "backoff", "proc", "proc_write"}

\* A cancellation that clears the running flag by itself.
CtxCancel_ClearsRunning(s) ==
    /\ ~ctxDone[s]
    /\ CtxObserved(s)
    /\ ctxDone' = [ctxDone EXCEPT ![s] = TRUE]
    /\ running' = FALSE
    /\ UNCHANGED <<whVars, extVars, stopSince, cfgVars, offset, consecutiveErrors, stopChClosed, closeOnce,
                   closeCount, wg, updates, brVars, startVars, stopPc, loopVars,
                   histVars>>

CtxCancel(s) ==
    /\ ~ctxDone[s]
    /\ CtxObserved(s)
    /\ ctxDone' = [ctxDone EXCEPT ![s] = TRUE]
    /\ UNCHANGED <<whVars, extVars, stopSince, cfgVars, clientVars, brVars, startVars, stopPc, loopVars,
                   histVars>>

\* ------------------------------------------------------------------- Stop
\* c.running.CompareAndSwap(true, false); a failed swap returns at once.
StopCAS(t) ==
    /\ stopPc[t] = "idle"
    /\ t > 1 => stopPc[t - 1] # "idle"
    /\ IF running
       THEN running' = FALSE /\ stopPc' = [stopPc EXCEPT ![t] = "close"]
       ELSE UNCHANGED running /\ stopPc' = [stopPc EXCEPT ![t] = "ret"]
    /\ stopSince' = [s \in Starters |-> TRUE]
    /\ UNCHANGED <<whVars, extVars, cfgVars, offset, consecutiveErrors, stopChClosed, closeOnce,
                   closeCount, wg, updates, brVars, ctxDone, startVars, loopVars,
                   histVars>>

\* Stop closing stopCh without the sync.Once guard.
StopClose_NoOnce(t) ==
    /\ stopPc[t] = "close"
    /\ closeOnce' = TRUE
    /\ stopChClosed' = TRUE
    /\ closeCount' = closeCount + 1
    /\ stopPc' = [stopPc EXCEPT ![t] = "wait"]
    /\ UNCHANGED <<whVars, extVars, stopSince, cfgVars, running, offset, consecutiveErrors, wg, updates,
                   brVars, ctxDone, startVars, loopVars, histVars>>

\* c.closeOnce.Do(func() { close(c.stopCh) })
StopClose(t) ==
    /\ stopPc[t] = "close"
    /\ IF closeOnce
       THEN UNCHANGED <<stopChClosed, closeOnce, closeCount>>
       ELSE /\ closeOnce' = TRUE
            /\ stopChClosed' = TRUE
            /\ closeCount' = closeCount + 1
    /\ stopPc' = [stopPc EXCEPT ![t] = "wait"]
    /\ UNCHANGED <<whVars, extVars, stopSince, cfgVars, running, offset, consecutiveErrors, wg, updates,
                   brVars, ctxDone, startVars, loopVars, histVars>>

\* c.wg.Wait() returns
StopWait(t) ==
    /\ stopPc[t] = "wait"
    /\ wg = 0
    /\ stopPc' = [stopPc EXCEPT ![t] = "ret"]
    /\ UNCHANGED <<whVars, extVars, stopSince, cfgVars, clientVars, brVars, ctxDone, startVars, loopVars,
                   histVars>>
\* --------------------------------------------------------------- pollLoop
\* The error branch comparing errCount > maxErrors instead of >=.
FailPoll_OffByOne(s, err) ==
    /\ consecutiveErrors' = consecutiveErrors + 1
    /\ IF maxErrors > 0 /\ consecutiveErrors + 1 > maxErrors
       THEN /\ loopPc' = [loopPc EXCEPT ![s] = "defer_store"]
            /\ fatal' = [fatal EXCEPT ![s] = TRUE]
            /\ UNCHANGED lastErr
       ELSE /\ loopPc' = [loopPc EXCEPT ![s] = "backoff"]
            /\ lastErr' = [lastErr EXCEPT ![s] = err]
            /\ UNCHANGED fatal
    /\ UNCHANGED <<batch, retIncr, lastRet, orderly>>

\* The success branch without consecutiveErrors.Store(0).
SucceedPoll_NoReset(s, b) ==
    /\ UNCHANGED consecutiveErrors
    /\ batch' = [batch EXCEPT ![s] = b]
    /\ loopPc' = [loopPc EXCEPT ![s] = IF b = <<>> THEN "check" ELSE "proc"]
    /\ retIncr' = (retIncr /\ (Len(b) >= 1 => lastRet < b[1])
                            /\ (Len(b) = 2 => b[1] < b[2]))
    /\ lastRet' = IF b = <<>> THEN lastRet ELSE b[Len(b)]
    /\ orderly' = (orderly /\ Sorted(b) /\ \A i \in 1..Len(b) : b[i] >= reqOffset[s])
    /\ UNCHANGED <<fatal, lastErr>>

\* The error branch of pollLoop, taken for every err that fetchUpdates
\* returns: consecutiveErrors.Add(1), then either the loop returns
\* (maxErrors reached) or it goes to sleep for the backoff.
FailPoll(s, err) ==
    /\ consecutiveErrors' = consecutiveErrors + 1
    /\ IF maxErrors > 0 /\ consecutiveErrors + 1 >= maxErrors
       THEN /\ loopPc' = [loopPc EXCEPT ![s] = "defer_store"]
            /\ fatal' = [fatal EXCEPT ![s] = TRUE]
            /\ UNCHANGED lastErr
       ELSE /\ loopPc' = [loopPc EXCEPT ![s] = "backoff"]
            /\ lastErr' = [lastErr EXCEPT ![s] = err]
            /\ UNCHANGED fatal
    /\ UNCHANGED <<batch, retIncr, lastRet, orderly>>

StrictlyIncreasing(last, b) ==
    /\ Len(b) >= 1 => (last < b[1])
    /\ Len(b) = 2 => (b[1] < b[2])

\* The success branch of pollLoop: consecutiveErrors.Store(0), then the
\* batch is processed update by update; an empty batch is the end of the
\* iteration.
SucceedPoll(s, b) ==
    /\ consecutiveErrors' = 0
    /\ batch' = [batch EXCEPT ![s] = b]
    /\ loopPc' = [loopPc EXCEPT ![s] = IF b = <<>> THEN "check" ELSE "proc"]
    /\ retIncr' = (retIncr /\ StrictlyIncreasing(lastRet, b))
    /\ lastRet' = IF b = <<>> THEN lastRet ELSE b[Len(b)]
    /\ orderly' = (orderly /\ Sorted(b) /\ \A i \in 1..Len(b) : b[i] >= reqOffset[s])
    /\ UNCHANGED <<fatal, lastErr>>

\* The select at the top of the loop without the stopCh case.
LoopCheck_NoStopCase(s, budget) ==
    /\ loopPc[s] = "check"
    /\ IF ctxDone[s]
       THEN /\ loopPc' = [loopPc EXCEPT ![s] = "defer_store"]
            /\ UNCHANGED <<polls, brVars, stale, consecutiveErrors, batch,
                           fatal, retIncr, lastRet, orderly, reqOffset,
                           lastErr>>
       ELSE /\ polls < budget
            /\ polls' = polls + 1
            /\ IF BreakerRejects
               THEN FailPoll(s, RequestFailed) /\ UNCHANGED <<brVars, stale, reqOffset>>
               ELSE /\ brCounts' = OnRequest(brCounts)
                    /\ reqOffset' = [reqOffset EXCEPT ![s] = offset]
                    /\ loopPc' = [loopPc EXCEPT ![s] = "rpc"]
                    /\ UNCHANGED <<brState, stale, consecutiveErrors, batch,
                                   fatal, retIncr, lastRet, orderly, lastErr>>
    /\ UNCHANGED <<whVars, extVars, stopSince, cfgVars, running, offset, stopChClosed, closeOnce,
                   closeCount, wg, updates, ctxDone, startVars, stopPc,
                   advance, lastSent>>

\* The select at the top of the loop: a cancelled ctx or a closed stopCh
\* returns.  Otherwise (default) fetchUpdates runs up to breaker.Execute's
\* beforeRequest: a rejecting breaker fails the poll without a network call,
\* else the request is counted and the RPC is in flight.
LoopCheck(s, budget) ==
    /\ loopPc[s] = "check"
    /\ IF ctxDone[s] \/ stopChClosed
       THEN /\ loopPc' = [loopPc EXCEPT ![s] = "defer_store"]
            /\ UNCHANGED <<polls, brVars, stale, consecutiveErrors, batch,
                           fatal, retIncr, lastRet, orderly, reqOffset,
                           lastErr>>
       ELSE /\ polls < budget
            /\ polls' = polls + 1
            /\ IF BreakerRejects
               THEN FailPoll(s, RequestFailed) /\ UNCHANGED <<brVars, stale, reqOffset>>
               ELSE /\ brCounts' = OnRequest(brCounts)
                    /\ reqOffset' = [reqOffset EXCEPT ![s] = offset]
                    /\ loopPc' = [loopPc EXCEPT ![s] = "rpc"]
                    /\ UNCHANGED <<brState, stale, consecutiveErrors, batch,
                                   fatal, retIncr, lastRet, orderly, lastErr>>
    /\ UNCHANGED <<whVars, extVars, stopSince, cfgVars, running, offset, stopChClosed, closeOnce,
                   closeCount, wg, updates, ctxDone, startVars, stopPc,
                   advance, lastSent>>

\* fetchUpdates with the decoding and the ok check inside the function the
\* breaker guards: a 200 that does not decode or carries ok=false is
\* recorded as a failure.
RpcOutcome_CountsDecode(s, o) ==
    /\ loopPc[s] = "rpc"
    /\ IF o.kind \in {"network", "status", "decode", "notok"}
       THEN AfterRequest(s, FALSE) /\ FailPoll(s, ErrorOf(o))
       ELSE AfterRequest(s, TRUE) /\ SucceedPoll(s, o.result)
    /\ reqOffset' = [reqOffset EXCEPT ![s] = 0]
    /\ UNCHANGED <<whVars, extVars, stopSince, cfgVars, running, offset, stopChClosed, closeOnce,
                   closeCount, wg, updates, ctxDone, startVars, stopPc,
                   advance, polls, lastSent>>

\* The RPC returns with outcome o: the breaker records the HTTP outcome (an
\* error or a non-200 status is a failure, a 200 is a success), then the
\* body is decoded.
RpcOutcome(s, o) ==
    /\ loopPc[s] = "rpc"
    /\ IF o.kind \in {"network", "status"}
       THEN AfterRequest(s, FALSE) /\ FailPoll(s, ErrorOf(o))
       ELSE IF o.kind \in {"decode", "notok"}
       THEN AfterRequest(s, TRUE) /\ FailPoll(s, ErrorOf(o))
       ELSE AfterRequest(s, TRUE) /\ SucceedPoll(s, o.result)
    /\ reqOffset' = [reqOffset EXCEPT ![s] = 0]
    /\ UNCHANGED <<whVars, extVars, stopSince, cfgVars, running, offset, stopChClosed, closeOnce,
                   closeCount, wg, updates, ctxDone, startVars, stopPc,
                   advance, polls, lastSent>>

LoopRpcDone(s, outs) ==
    \E o \in IF ctxDone[s] THEN CancelledOutcomes ELSE outs : RpcOutcome(s, o)

\* The backoff select: time.After fires and the loop continues.
LoopBackoffWake(s) ==
    /\ loopPc[s] = "backoff"
    /\ loopPc' = [loopPc EXCEPT ![s] = "check"]
    /\ lastErr' = [lastErr EXCEPT ![s] = NoError]
    /\ UNCHANGED <<whVars, extVars, stopSince, cfgVars, clientVars, brVars, ctxDone, startVars, stopPc,
                   batch, advance, stale, fatal, reqOffset,
                   histVars>>

\* The backoff select: ctx.Done() or stopCh is ready and the loop returns.
LoopBackoffStop(s) ==
    /\ loopPc[s] = "backoff"
    /\ ctxDone[s] \/ stopChClosed
    /\ loopPc' = [loopPc EXCEPT ![s] = "defer_store"]
    /\ lastErr' = [lastErr EXCEPT ![s] = NoError]
    /\ UNCHANGED <<whVars, extVars, stopSince, cfgVars, clientVars, brVars, ctxDone, startVars, stopPc,
                   batch, advance, stale, fatal, reqOffset,
                   histVars>>

\* for _, update := range updates: the read of c.offset in
\* "update.UpdateID >= c.offset" (a plain, unsynchronised read).
LoopProcRead(s) ==
    /\ loopPc[s] = "proc"
    /\ advance' = [advance EXCEPT ![s] = (Head(batch[s]) >= offset)]
    /\ loopPc' = [loopPc EXCEPT ![s] = "proc_write"]
    /\ UNCHANGED <<whVars, extVars, stopSince, cfgVars, clientVars, brVars, ctxDone, startVars, stopPc,
                   batch, stale, fatal, reqOffset, lastErr,
                   histVars>>

\* The write "c.offset = update.UpdateID + 1" when the comparison held, then
\* the non-blocking send: the update is queued, or dropped when the channel
\* is full.  After the last update the loop is back at its top.
LoopProcWrite(s) ==
    /\ loopPc[s] = "proc_write"
    /\ offset' = IF advance[s] THEN Head(batch[s]) + 1 ELSE offset
    /\ updates' = IF Len(updates) < SinkCap
                  THEN Append(updates, Head(batch[s]))
                  ELSE updates
    /\ batch' = [batch EXCEPT ![s] = Tail(batch[s])]
    /\ advance' = [advance EXCEPT ![s] = FALSE]
    /\ loopPc' = [loopPc EXCEPT ![s] =
                     IF Tail(batch[s]) = <<>> THEN "check" ELSE "proc"]
    /\ lastSent' = IF Len(updates) < SinkCap THEN Head(batch[s]) ELSE lastSent
    /\ UNCHANGED <<whVars, extVars, stopSince, cfgVars, running, consecutiveErrors, stopChClosed,
                   closeOnce, closeCount, wg, brVars, ctxDone, startVars,
                   stopPc, stale, fatal, reqOffset, lastErr, polls, retIncr, lastRet,
                   orderly>>

\* defer c.running.Store(false)
LoopDeferStore(s) ==
    /\ loopPc[s] = "defer_store"
    /\ running' = FALSE
    /\ loopPc' = [loopPc EXCEPT ![s] = "defer_done"]
    /\ UNCHANGED <<whVars, extVars, stopSince, cfgVars, offset, consecutiveErrors, stopChClosed, closeOnce,
                   closeCount, wg, updates, brVars, ctxDone, startVars, stopPc,
                   batch, advance, stale, fatal, reqOffset, lastErr,
                   histVars>>

\* pollLoop returning without wg.Done().
LoopDeferDone_NoDone(s) ==
    /\ loopPc[s] = "defer_done"
    /\ loopPc' = [loopPc EXCEPT ![s] = "exited"]
    /\ UNCHANGED <<whVars, extVars, stopSince, cfgVars, clientVars, brVars, ctxDone, startVars, stopPc,
                   batch, advance, stale, fatal, reqOffset, lastErr,
                   histVars>>

\* defer c.wg.Done()
LoopDeferDone(s) ==
    /\ loopPc[s] = "defer_done"
    /\ wg' = wg - 1
    /\ loopPc' = [loopPc EXCEPT ![s] = "exited"]
    /\ UNCHANGED <<whVars, extVars, stopSince, cfgVars, running, offset, consecutiveErrors, stopChClosed,
                   closeOnce, closeCount, updates, brVars, ctxDone, startVars,
                   stopPc, batch, advance, stale, fatal, reqOffset, lastErr,
                   histVars>>

\* The consumer receives from the updates channel.
Receive ==
    /\ updates # <<>>
    /\ updates' = Tail(updates)
    /\ UNCHANGED <<whVars, extVars, stopSince, cfgVars, running, offset, consecutiveErrors, stopChClosed,
                   closeOnce, closeCount, wg, brVars, ctxDone, startVars,
                   stopPc, loopVars, histVars>>

\* ====================================================== webhook handler
\* WebhookHandler.ServeHTTP at the level of its shared objects: the token
\* bucket (rate.Limiter), the breaker, the buffer pool and the Updates
\* channel.  Every goroutine of Handlers serves one request after another.

WhBurst == 2        \* rateLimitBurst
WhSinkCap == 2      \* capacity of the Updates channel
MaxServed == 3      \* requests served in a run of WhSpec
MaxServedOne == 7   \* requests served in a run of WhBreakerSpec

Handlers == {1, 2}  \* goroutines running ServeHTTP at the same time
Buffers == {1, 2}   \* buffers of the pool: one per goroutine is enough

AllowedHost == "bot.example.org"
SecretToken == "s3cret"
Hosts == {AllowedHost, "other.example.net"}
SecretHeaders == {SecretToken, "wrong"}
Methods == {"POST", "GET"}

\* Request bodies.  A body is a JSON object (its update_id and the set of
\* its other keys), bytes that do not parse, or a stream whose read fails.
\* A sender can put any keys into the object: one payload, or a message
\* together with a callback_query.
NoUpdate == [update_id |-> 0, keys |-> {}]
SomeUpdates ==
    {[update_id |-> 1, keys |-> {"message"}],
     [update_id |-> 2, keys |-> {"message", "callback_query"}]}
JsonBodies == [kind : {"json"}, update : SomeUpdates]
OtherBodies == [kind : {"garbage", "unreadable"}, update : {NoUpdate}]
EmptyBuffer == [kind |-> "empty", update |-> NoUpdate]
ValidBody == [kind |-> "json", update |-> [update_id |-> 1, keys |-> {"message"}]]

\* json.Unmarshal(buffer[:n], &upd): the bytes parse or they do not.  Each
\* field of TelegramUpdate is set from the key of its json tag when the
\* object has that key and is left nil otherwise; nothing else is checked.
Parses(bytes) == bytes.kind = "json"
Unmarshal(bytes) ==
    [UpdateID |-> bytes.update.update_id,
     Message |-> "message" \in bytes.update.keys,
     EditedMessage |-> "edited_message" \in bytes.update.keys,
     CallbackQuery |-> "callback_query" \in bytes.update.keys]

\* Requests: every host/secret/method combination with a valid body, and
\* the matching combination with every body.
AuthRequests ==
    [host : Hosts, secret : SecretHeaders, method : Methods, body : {ValidBody}]
BodyRequests ==
    [host : {AllowedHost}, secret : {SecretToken}, method : {"POST"},
     body : JsonBodies \cup OtherBodies]
NoRequest == [host |-> "", secret |-> "", method |-> "", body |-> EmptyBuffer]

\* The sentinel *WebhookError values and their Code; every other error
\* (gobreaker.ErrOpenState, gobreaker.ErrTooManyRequests) is no WebhookError.
WebhookErrorCode ==
    [ErrForbidden |-> 403, ErrUnauthorized |-> 401, ErrMethodNotAllowed |-> 405,
     ErrChannelBlocked |-> 503, ErrBodyReadFailed |-> 500, ErrInvalidJSON |-> 400]
BreakerErrors == {"ErrOpenState", "ErrTooManyRequests"}

\* A tail of ServeHTTP that answers 200 whatever Execute returned.
StatusOf_AlwaysOk(err) == 200

\* The tail of ServeHTTP: a WebhookError is answered with its Code, any
\* other error with 500, no error with 200.
StatusOf(err) ==
    IF err = "nil" THEN 200
    ELSE IF err \in DOMAIN WebhookErrorCode THEN WebhookErrorCode[err]
    ELSE 500

\* The Message of the sentinel errors and the Error() text of the breaker's.
WebhookErrorMessage ==
    [ErrForbidden |-> "forbidden", ErrUnauthorized |-> "unauthorized",
     ErrMethodNotAllowed |-> "method not allowed",
     ErrChannelBlocked |-> "updates channel blocked",
     ErrBodyReadFailed |-> "failed to read request body",
     ErrInvalidJSON |-> "invalid JSON payload"]
BreakerErrorText ==
    [ErrOpenState |-> "circuit breaker is open",
     ErrTooManyRequests |-> "too many requests"]

\* The response body: http.Error writes the message, success writes nothing.
BodyOf(err) ==
    IF err = "nil" THEN ""
    ELSE IF err \in DOMAIN WebhookErrorMessage THEN WebhookErrorMessage[err]
    ELSE IF err \in DOMAIN BreakerErrorText THEN BreakerErrorText[err]
    ELSE err


\* ------------------------------------------- wh.breaker (default settings)
\* NewWebhookHandler sets no ReadyToTrip: the library's default trips on
\* more than 5 consecutive failures.
WhReadyToTrip(counts) == counts.ConsecutiveFailures > 5

\* Goroutine r is inside breaker.Execute with its request counted.
WhInFlight(r) == whPc[r] \in {"read", "forward", "after"}

WhNewGeneration(to, done) ==
    /\ whBrState' = to
    /\ whBrCounts' = ZeroCounts
    /\ whStale' = [r \in Handlers |-> WhInFlight(r) /\ r \notin done]

\* beforeRequest letting requests through in Open.
WhBreakerRejects_NotInOpen ==
    whBrState = "halfopen" /\ whBrCounts.Requests >= breakerMaxRequests

WhBreakerRejects ==
    \/ whBrState = "open"
    \/ whBrState = "halfopen" /\ whBrCounts.Requests >= breakerMaxRequests

\* afterRequest(generation, err == nil) of the request of goroutine r.
WhAfterRequest(r, success) ==
    IF whStale[r]
    THEN UNCHANGED <<whBrState, whBrCounts>>
         /\ whStale' = [whStale EXCEPT ![r] = FALSE]
    ELSE IF success
    THEN IF whBrState = "halfopen"
              /\ OnSuccess(whBrCounts).ConsecutiveSuccesses >= breakerMaxRequests
         THEN WhNewGeneration("closed", {r})
         ELSE /\ whBrCounts' = OnSuccess(whBrCounts)
              /\ UNCHANGED <<whBrState, whStale>>
    ELSE IF whBrState = "halfopen" \/ WhReadyToTrip(OnFailure(whBrCounts))
         THEN WhNewGeneration("open", {r})
         ELSE /\ whBrCounts' = OnFailure(whBrCounts)
              /\ UNCHANGED <<whBrState, whStale>>

\* currentState: the rolling Interval has elapsed in Closed.
WhBreakerIntervalExpire ==
    /\ whBrState = "closed"
    /\ whBrCounts # ZeroCounts
    /\ WhNewGeneration("closed", {})
    /\ UNCHANGED <<pollVars, extVars, whCfgVars, limiterVars, bufData, whUpdates, reqVars>>

\* currentState: the Timeout has elapsed in Open.
WhBreakerTimeoutExpire ==
    /\ whBrState = "open"
    /\ WhNewGeneration("halfopen", {})
    /\ UNCHANGED <<pollVars, extVars, whCfgVars, limiterVars, bufData, whUpdates, reqVars>>

\* ------------------------------------------------------------- ServeHTTP
\* A request arrives at the lowest free goroutine and calls
\* wh.limiter.Allow(): a token is taken, or the request is answered 429.
WhFree(r) == whPc[r] \in {"idle", "done"}

\* ServeHTTP going on to the breaker although Allow() returned false.
WhAllow_NoLimit(r, q, budget) ==
    /\ WhFree(r)
    /\ \A x \in Handlers : x < r => ~WhFree(x)
    /\ served < budget
    /\ served' = served + 1
    /\ whReq' = [whReq EXCEPT ![r] = q]
    /\ placed' = [placed EXCEPT ![r] = <<>>]
    /\ inBurst' = [inBurst EXCEPT ![r] = instFull /\ instCalls < WhBurst]
    /\ instCalls' = IF instFull /\ instCalls <= WhBurst THEN instCalls + 1 ELSE instCalls
    /\ tokens' = IF tokens > 0 THEN tokens - 1 ELSE tokens
    /\ whPc' = [whPc EXCEPT ![r] = "before"]
    /\ whErr' = [whErr EXCEPT ![r] = "nil"]
    /\ whResp' = [whResp EXCEPT ![r] = 0]
    /\ UNCHANGED <<pollVars, extVars, whCfgVars, instFull, whBrVars, bufData, whUpdates,
                   whBuf>>

\* ServeHTTP calling Allow() inside the function the breaker guards, so
\* that a refusal is recorded as a failed request.
WhAllow_InsideBreaker(r, q, budget) ==
    /\ WhFree(r)
    /\ \A x \in Handlers : x < r => ~WhFree(x)
    /\ served < budget
    /\ served' = served + 1
    /\ instCalls' = IF instFull /\ instCalls <= WhBurst THEN instCalls + 1 ELSE instCalls
    /\ whReq' = [whReq EXCEPT ![r] = q]
    /\ placed' = [placed EXCEPT ![r] = <<>>]
    /\ inBurst' = [inBurst EXCEPT ![r] = instFull /\ instCalls < WhBurst]
    /\ IF tokens > 0
       THEN /\ tokens' = tokens - 1
            /\ whPc' = [whPc EXCEPT ![r] = "before"]
            /\ whErr' = [whErr EXCEPT ![r] = "nil"]
            /\ whResp' = [whResp EXCEPT ![r] = 0]
            /\ UNCHANGED whBrCounts
       ELSE /\ UNCHANGED tokens
            /\ whPc' = [whPc EXCEPT ![r] = "done"]
            /\ whErr' = [whErr EXCEPT ![r] = "rate limit exceeded"]
            /\ whResp' = [whResp EXCEPT ![r] = 429]
            /\ whBrCounts' = OnFailure(OnRequest(whBrCounts))
    /\ UNCHANGED <<pollVars, extVars, whCfgVars, instFull, whBrState, whStale, bufData,
                   whUpdates, whBuf>>

WhAllow(r, q, budget) ==
    /\ WhFree(r)
    /\ \A x \in Handlers : x < r => ~WhFree(x)
    /\ served < budget
    /\ served' = served + 1
    /\ instCalls' = IF instFull /\ instCalls <= WhBurst THEN instCalls + 1 ELSE instCalls
    /\ whReq' = [whReq EXCEPT ![r] = q]
    /\ placed' = [placed EXCEPT ![r] = <<>>]
    /\ inBurst' = [inBurst EXCEPT ![r] = instFull /\ instCalls < WhBurst]
    /\ IF tokens > 0
       THEN /\ tokens' = tokens - 1
            /\ whPc' = [whPc EXCEPT ![r] = "before"]
            /\ whErr' = [whErr EXCEPT ![r] = "nil"]
            /\ whResp' = [whResp EXCEPT ![r] = 0]
       ELSE /\ UNCHANGED tokens
            /\ whPc' = [whPc EXCEPT ![r] = "done"]
            /\ whErr' = [whErr EXCEPT ![r] = "rate limit exceeded"]
            /\ whResp' = [whResp EXCEPT ![r] = 429]
    /\ UNCHANGED <<pollVars, extVars, whCfgVars, instFull, whBrVars, bufData, whUpdates,
                   whBuf>>

\* Time passes and the bucket gains tokens, up to the burst.
LimiterRefill ==
    /\ tokens < WhBurst
    /\ \E n \in (tokens + 1)..WhBurst :
          /\ tokens' = n
          /\ instFull' = (n = WhBurst)
    /\ instCalls' = 0
    /\ UNCHANGED <<pollVars, extVars, whCfgVars, whBrVars, bufData, whUpdates, reqVars>>

\* The validation with the host check left out.
Validate_NoHost(q) ==
    IF webhookSecret # "" /\ q.secret # webhookSecret THEN "ErrUnauthorized"
    ELSE IF q.method # "POST" THEN "ErrMethodNotAllowed"
    ELSE "nil"

\* The validation with the secret compared before the host.
Validate_SecretFirst(q) ==
    IF webhookSecret # "" /\ q.secret # webhookSecret THEN "ErrUnauthorized"
    ELSE IF allowedDomain # "" /\ q.host # allowedDomain THEN "ErrForbidden"
    ELSE IF q.method # "POST" THEN "ErrMethodNotAllowed"
    ELSE "nil"

\* The validation at the head of the guarded function, in its order.
Validate(q) ==
    IF allowedDomain # "" /\ q.host # allowedDomain THEN "ErrForbidden"
    ELSE IF webhookSecret # "" /\ q.secret # webhookSecret THEN "ErrUnauthorized"
    ELSE IF q.method # "POST" THEN "ErrMethodNotAllowed"
    ELSE "nil"

HeldBuffers == {whBuf[x] : x \in Handlers} \ {0}

\* bufferPool.Get handing every goroutine the same buffer.
PoolGet_Shared == {1}

\* bufferPool.Get(): a pooled buffer or a new one, never one that another
\* goroutine holds.  Buffers are interchangeable, so it is the lowest.
PoolGet == {b \in Buffers \ HeldBuffers : \A c \in Buffers \ HeldBuffers : b <= c}

\* breaker.Execute up to the body read: beforeRequest rejects (the guarded
\* function does not run), or the request is counted and validated; a
\* valid request takes a buffer from the pool.
WhBefore(r) ==
    /\ whPc[r] = "before"
    /\ IF WhBreakerRejects
       THEN /\ whErr' = [whErr EXCEPT ![r] =
                            IF whBrState = "open" THEN "ErrOpenState"
                                                  ELSE "ErrTooManyRequests"]
            /\ whResp' = [whResp EXCEPT ![r] = 500]
            /\ whPc' = [whPc EXCEPT ![r] = "done"]
            /\ UNCHANGED <<whBrCounts, whBuf>>
       ELSE /\ whBrCounts' = OnRequest(whBrCounts)
            /\ whErr' = [whErr EXCEPT ![r] = Validate(whReq[r])]
            /\ IF Validate(whReq[r]) # "nil"
               THEN /\ whPc' = [whPc EXCEPT ![r] = "after"]
                    /\ UNCHANGED whBuf
               ELSE /\ whPc' = [whPc EXCEPT ![r] = "read"]
                    /\ \E b \in PoolGet : whBuf' = [whBuf EXCEPT ![r] = b]
            /\ UNCHANGED whResp
    /\ UNCHANGED <<pollVars, extVars, whCfgVars, limiterVars, whBrState, whStale, bufData,
                   whUpdates, whReq, placed, inBurst,
                   served>>

\* The body read returning on a read error without the deferred Put.
WhRead_NoPut(r) ==
    /\ whPc[r] = "read"
    /\ IF whReq[r].body.kind = "unreadable"
       THEN /\ whErr' = [whErr EXCEPT ![r] = "ErrBodyReadFailed"]
            /\ whPc' = [whPc EXCEPT ![r] = "after"]
            /\ UNCHANGED <<bufData, whBuf>>
       ELSE /\ bufData' = [bufData EXCEPT ![whBuf[r]] = whReq[r].body]
            /\ whPc' = [whPc EXCEPT ![r] = "forward"]
            /\ UNCHANGED <<whErr, whBuf>>
    /\ UNCHANGED <<pollVars, extVars, whCfgVars, limiterVars, whBrVars, whUpdates, whReq,
                   whResp, placed, inBurst, served>>

\* io.ReadFull(r.Body, buffer): the body is in the buffer, or the read
\* fails and the deferred Put returns the buffer.  The bytes of a pooled
\* buffer are dead: the next holder reads buffer[:n] only after ReadFull
\* has overwritten them, so a buffer in the pool is kept as EmptyBuffer.
WhRead(r) ==
    /\ whPc[r] = "read"
    /\ IF whReq[r].body.kind = "unreadable"
       THEN /\ whErr' = [whErr EXCEPT ![r] = "ErrBodyReadFailed"]
            /\ whBuf' = [whBuf EXCEPT ![r] = 0]
            /\ whPc' = [whPc EXCEPT ![r] = "after"]
            /\ bufData' = [bufData EXCEPT ![whBuf[r]] = EmptyBuffer]
       ELSE /\ bufData' = [bufData EXCEPT ![whBuf[r]] = whReq[r].body]
            /\ whPc' = [whPc EXCEPT ![r] = "forward"]
            /\ UNCHANGED <<whErr, whBuf>>
    /\ UNCHANGED <<pollVars, extVars, whCfgVars, limiterVars, whBrVars, whUpdates, whReq,
                   whResp, placed, inBurst, served>>

\* The forward step with a plain send in place of the select with default:
\* the goroutine waits until the channel has room.
WhForward_Wait(r) ==
    /\ whPc[r] = "forward"
    /\ LET bytes == bufData[whBuf[r]] IN
          IF ~Parses(bytes)
          THEN /\ whErr' = [whErr EXCEPT ![r] = "ErrInvalidJSON"]
               /\ UNCHANGED <<whUpdates, placed>>
          ELSE /\ Len(whUpdates) < WhSinkCap
               /\ whUpdates' = Append(whUpdates, Unmarshal(bytes))
               /\ placed' = [placed EXCEPT ![r] = Append(@, Unmarshal(bytes))]
               /\ UNCHANGED whErr
    /\ bufData' = [bufData EXCEPT ![whBuf[r]] = EmptyBuffer]
    /\ whBuf' = [whBuf EXCEPT ![r] = 0]
    /\ whPc' = [whPc EXCEPT ![r] = "after"]
    /\ UNCHANGED <<pollVars, extVars, whCfgVars, limiterVars, whBrVars, whReq, whResp,
                   inBurst, served>>

\* json.Unmarshal of the buffer, the non-blocking send on wh.Updates, and
\* the deferred Put.
WhForward(r) ==
    /\ whPc[r] = "forward"
    /\ LET bytes == bufData[whBuf[r]] IN
          IF ~Parses(bytes)
          THEN /\ whErr' = [whErr EXCEPT ![r] = "ErrInvalidJSON"]
               /\ UNCHANGED <<whUpdates, placed>>
          ELSE IF Len(whUpdates) < WhSinkCap
          THEN /\ whUpdates' = Append(whUpdates, Unmarshal(bytes))
               /\ placed' = [placed EXCEPT ![r] = Append(@, Unmarshal(bytes))]
               /\ UNCHANGED whErr
          ELSE /\ whErr' = [whErr EXCEPT ![r] = "ErrChannelBlocked"]
               /\ UNCHANGED <<whUpdates, placed>>
    /\ bufData' = [bufData EXCEPT ![whBuf[r]] = EmptyBuffer]
    /\ whBuf' = [whBuf EXCEPT ![r] = 0]
    /\ whPc' = [whPc EXCEPT ![r] = "after"]
    /\ UNCHANGED <<pollVars, extVars, whCfgVars, limiterVars, whBrVars, whReq, whResp,
                   inBurst, served>>

\* The breaker told that a request answered with a 4xx status succeeded.
WhAfter_ClientErrorsOk(r) ==
    /\ whPc[r] = "after"
    /\ WhAfterRequest(r, StatusOf(whErr[r]) < 500)
    /\ whResp' = [whResp EXCEPT ![r] = StatusOf(whErr[r])]
    /\ whPc' = [whPc EXCEPT ![r] = "done"]
    /\ UNCHANGED <<pollVars, extVars, whCfgVars, limiterVars, bufData, whUpdates, whReq,
                   whBuf, whErr, placed, inBurst, served>>

\* afterRequest records the outcome, then the response is written.
WhAfter(r) ==
    /\ whPc[r] = "after"
    /\ WhAfterRequest(r, whErr[r] = "nil")
    /\ whResp' = [whResp EXCEPT ![r] = StatusOf(whErr[r])]
    /\ whPc' = [whPc EXCEPT ![r] = "done"]
    /\ UNCHANGED <<pollVars, extVars, whCfgVars, limiterVars, bufData, whUpdates, whReq,
                   whBuf, whErr, placed, inBurst, served>>

\* The consumer receives from wh.Updates.
WhReceive ==
    /\ whUpdates # <<>>
    /\ whUpdates' = Tail(whUpdates)
    /\ UNCHANGED <<pollVars, extVars, whCfgVars, limiterVars, whBrVars, bufData, reqVars>>

\* NewWebhookHandler: a full bucket, a closed breaker, an empty channel.
HandlerFresh ==
    /\ tokens = WhBurst
    /\ instFull = TRUE
    /\ instCalls = 0
    /\ whBrState = "closed"
    /\ whBrCounts = ZeroCounts
    /\ bufData = [b \in Buffers |-> EmptyBuffer]
    /\ whUpdates = <<>>
    /\ whPc = [r \in Handlers |-> "idle"]
    /\ whReq = [r \in Handlers |-> NoRequest]
    /\ whBuf = [r \in Handlers |-> 0]
    /\ whErr = [r \in Handlers |-> "nil"]
    /\ whResp = [r \in Handlers |-> 0]
    /\ whStale = [r \in Handlers |-> FALSE]
    /\ placed = [r \in Handlers |-> <<>>]
    /\ inBurst = [r \in Handlers |-> FALSE]
    /\ served = 0

\* ------------------------------------------------------ calculateBackoff
\* WithRetryConfig: each argument replaces the field only when it is valid
\* (initialDelay > 0, maxDelay > 0, backoffFactor > 1.0).
WithRetryConfig(initialDelay, maxDelay, backoffFactor) ==
    [retryInitialDelay |-> IF initialDelay > 0 THEN initialDelay
                           ELSE defaultRetryInitialDelay,
     retryMaxDelay |-> IF maxDelay > 0 THEN maxDelay ELSE defaultRetryMaxDelay,
     retryBackoffFactor |-> IF backoffFactor > 10 THEN backoffFactor
                            ELSE defaultRetryBackoffFactor]

RECURSIVE Pow(_, _)
Pow(b, e) == IF e = 0 THEN 1 ELSE b * Pow(b, e - 1)

\* float64(c.retryInitialDelay) * math.Pow(c.retryBackoffFactor, attempt-1)
\* as the fraction ExpNum(n) / ExpDen(n).
ExpNum(n) == retryInitialDelay * Pow(retryBackoffFactor, n - 1)
ExpDen(n) == Pow(10, n - 1)

\* if baseDelay > float64(c.retryMaxDelay)
Capped(n) == ExpNum(n) > retryMaxDelay * ExpDen(n)

\* baseDelay after the cap, as the fraction BaseNum(n) / ExpDen(n).
BaseNum(n) == IF Capped(n) THEN retryMaxDelay * ExpDen(n) ELSE ExpNum(n)

\* A jitter range of half the base delay instead of a quarter.
JitterRange_Half(n) == BaseNum(n) \div (2 * ExpDen(n))

\* jitterRange := int64(baseDelay * 0.25)
JitterRange(n) == BaseNum(n) \div (4 * ExpDen(n))

\* rand.Int(rand.Reader, big.NewInt(jitterRange)) returns a value in
\* [0, jitterRange); with jitterRange = 0, or when the random source
\* fails, nothing is added.
JitterDraws(n) == {0} \cup (0..(JitterRange(n) - 1))

\* time.Duration(baseDelay) after the jitter j was added: the conversion
\* truncates.
calculateBackoff(n, j) == (BaseNum(n) \div ExpDen(n)) + j

\* The next consecutive error: pollLoop calls calculateBackoff with the
\* incremented count.
Backoff ==
    /\ attempt < MaxAttempt
    /\ attempt' = attempt + 1
    /\ \E j \in JitterDraws(attempt + 1) : delay' = calculateBackoff(attempt + 1, j)
    /\ prevDelay' = delay
    /\ UNCHANGED <<pollVars, whVars, obsVars, retryVars, srvVars, cliVars>>

\* --------------------------------------------------- StartWebhookServer
ProbePaths == {"/healthz", "/readyz"}

\* Everything but the server's own variables.
notSrvVars == <<pollVars, whVars, obsVars, retryVars, backoffVars, cliVars>>

\* The process calls StartWebhookServer(ctx, cfg, handler, logger).
SrvCall ==
    /\ srvPc = "idle"
    /\ srvPc' = "validate"
    /\ UNCHANGED <<notSrvVars, srvResult, srvCtxDone, isShuttingDown, listener,
                   drainClock, shutdownClock, conns, probes, probePath,
                   probeStatus>>

\* validateConfig(cfg): an invalid configuration is returned at once.
SrvValidate ==
    /\ srvPc = "validate"
    /\ \E ok \in BOOLEAN :
          IF ok
          THEN srvPc' = "logpath" /\ UNCHANGED srvResult
          ELSE srvPc' = "returned" /\ srvResult' = "ErrConfig"
    /\ UNCHANGED <<notSrvVars, srvCtxDone, isShuttingDown, listener,
                   drainClock, shutdownClock, conns, probes, probePath,
                   probeStatus>>

\* ensureLogPath(cfg.LogFilePath)
SrvEnsureLogPath ==
    /\ srvPc = "logpath"
    /\ \E ok \in BOOLEAN :
          IF ok
          THEN srvPc' = "register" /\ UNCHANGED srvResult
          ELSE srvPc' = "returned" /\ srvResult' = "ErrLogPath"
    /\ UNCHANGED <<notSrvVars, srvCtxDone, isShuttingDown, listener,
                   drainClock, shutdownClock, conns, probes, probePath,
                   probeStatus>>

\* SetWebhook when WebhookURL and BotToken are configured (its failure is
\* returned; it fails when ctx is cancelled), then state := &ServerState{},
\* the mux and the server are built, the goroutine running
\* ListenAndServeTLS is started and the call blocks in <-ctx.Done().
SrvRegister ==
    /\ srvPc = "register"
    /\ \E configured \in BOOLEAN :
       \E ok \in IF srvCtxDone THEN {FALSE} ELSE BOOLEAN :
          IF configured /\ ~ok
          THEN /\ srvPc' = "returned"
               /\ srvResult' = "ErrRegister"
               /\ UNCHANGED <<isShuttingDown, listener>>
          ELSE /\ srvPc' = "serve"
               /\ isShuttingDown' = FALSE
               /\ listener' = "starting"
               /\ UNCHANGED srvResult
    /\ UNCHANGED <<notSrvVars, srvCtxDone, drainClock, shutdownClock, conns,
                   probes, probePath, probeStatus>>

\* The server goroutine: ListenAndServeTLS binds the port and serves, or
\* fails (certificate, port in use), or finds the server already shut down
\* (ErrServerClosed).
SrvListen ==
    /\ listener = "starting"
    /\ IF srvPc \in {"shutdown", "returned"}
       THEN listener' = "closed"
       ELSE \E ok \in BOOLEAN : listener' = IF ok THEN "open" ELSE "failed"
    /\ UNCHANGED <<notSrvVars, srvPc, srvResult, srvCtxDone, isShuttingDown,
                   drainClock, shutdownClock, conns, probes, probePath,
                   probeStatus>>

\* The process context is cancelled (SIGTERM).
SrvCtxCancel ==
    /\ ~srvCtxDone
    /\ srvPc # "returned"
    /\ srvCtxDone' = TRUE
    /\ UNCHANGED <<notSrvVars, srvPc, srvResult, isShuttingDown, listener,
                   drainClock, shutdownClock, conns, probes, probePath,
                   probeStatus>>

\* <-ctx.Done() returns; state.isShuttingDown.Store(true); the call enters
\* time.Sleep(cfg.DrainDelay).
SrvMark ==
    /\ srvPc = "serve"
    /\ srvCtxDone
    /\ isShuttingDown' = TRUE
    /\ drainClock' = 0
    /\ srvPc' = "sleep"
    /\ UNCHANGED <<notSrvVars, srvResult, srvCtxDone, listener, shutdownClock,
                   conns, probes, probePath, probeStatus>>

\* A tick of the clock: the sleep and the shutdown context's timer run.
SrvTick ==
    /\ \/ /\ srvPc = "sleep"
          /\ drainClock < DrainDelay
          /\ drainClock' = drainClock + 1
          /\ UNCHANGED shutdownClock
       \/ /\ srvPc = "shutdown"
          /\ shutdownClock < ShutdownTimeout
          /\ shutdownClock' = shutdownClock + 1
          /\ UNCHANGED drainClock
    /\ UNCHANGED <<notSrvVars, srvPc, srvResult, srvCtxDone, isShuttingDown,
                   listener, conns, probes, probePath, probeStatus>>

\* Shutdown called as soon as the flag is set, without the sleep.
SrvShutdown_NoDrain ==
    /\ srvPc = "sleep"
    /\ srvPc' = "shutdown"
    /\ shutdownClock' = 0
    /\ listener' = IF listener = "open" THEN "closed" ELSE listener
    /\ UNCHANGED <<notSrvVars, srvResult, srvCtxDone, isShuttingDown, drainClock,
                   conns, probes, probePath, probeStatus>>

\* time.Sleep returns after cfg.DrainDelay; shutdownCtx is created with
\* cfg.ShutdownTimeout and server.Shutdown(shutdownCtx) closes the listener.
SrvShutdown ==
    /\ srvPc = "sleep"
    /\ drainClock = DrainDelay
    /\ srvPc' = "shutdown"
    /\ shutdownClock' = 0
    /\ listener' = IF listener = "open" THEN "closed" ELSE listener
    /\ UNCHANGED <<notSrvVars, srvResult, srvCtxDone, isShuttingDown, drainClock,
                   conns, probes, probePath, probeStatus>>

\* server.Shutdown returns: nil once no request is in flight, the error of
\* shutdownCtx once its timeout has expired with requests still in flight.
SrvShutdownReturn ==
    /\ srvPc = "shutdown"
    /\ \/ conns = 0 /\ srvResult' = "nil"
       \/ conns > 0 /\ shutdownClock = ShutdownTimeout /\ srvResult' = "ErrShutdown"
    /\ srvPc' = "returned"
    /\ UNCHANGED <<notSrvVars, srvCtxDone, isShuttingDown, listener, drainClock,
                   shutdownClock, conns, probes, probePath, probeStatus>>

\* A probe of /healthz or /readyz is answered: 503 "shutting down" when
\* state.isShuttingDown.Load() is true, 200 "ok" otherwise.
Probe(path) ==
    /\ listener = "open"
    /\ probes < MaxProbes
    /\ probes' = probes + 1
    /\ probePath' = path
    /\ probeStatus' = IF isShuttingDown THEN 503 ELSE 200
    /\ UNCHANGED <<notSrvVars, srvPc, srvResult, srvCtxDone, isShuttingDown,
                   listener, drainClock, shutdownClock, conns>>

\* A webhook request on "/" begins, and it ends.
ConnOpen ==
    /\ listener = "open"
    /\ conns < MaxConns
    /\ conns' = conns + 1
    /\ UNCHANGED <<notSrvVars, srvPc, srvResult, srvCtxDone, isShuttingDown,
                   listener, drainClock, shutdownClock, probes, probePath,
                   probeStatus>>

ConnClose ==
    /\ conns > 0
    /\ conns' = conns - 1
    /\ UNCHANGED <<notSrvVars, srvPc, srvResult, srvCtxDone, isShuttingDown,
                   listener, drainClock, shutdownClock, probes, probePath,
                   probeStatus>>

\* ------------------------------------------------- callers of accessors
\* How each state field of LongPollingClient is declared: running is an
\* atomic.Bool, consecutiveErrors an atomic.Int32, offset a plain int.
FieldSync ==
    [running |-> "atomic", offset |-> "plain", consecutiveErrors |-> "atomic"]

Accessors == {"Running", "IsHealthy", "ConsecutiveErrors", "Offset"}

\* The fields an accessor loads, each in the way the field is declared.
ReadsOf(acc) ==
    IF acc = "Running" THEN {"running"}
    ELSE IF acc = "IsHealthy" THEN {"running", "consecutiveErrors"}
    ELSE IF acc = "ConsecutiveErrors" THEN {"consecutiveErrors"}
    ELSE IF acc = "Offset" THEN {"offset"}
    ELSE {}

\* The fields the next statement of poll loop s stores to: the counter when
\* a poll ends (Add(1) or Store(0)), c.offset when the comparison held,
\* the flag in the deferred Store(false).
LoopWrites(s) ==
    IF loopPc[s] \in {"check", "rpc"} THEN {"consecutiveErrors"}
    ELSE IF loopPc[s] = "proc_write" /\ advance[s] THEN {"offset"}
    ELSE IF loopPc[s] = "defer_store" THEN {"running"}
    ELSE {}

\* A load by the caller and a store by a poll loop to the same field are
\* both about to execute, and the field is a plain one: a data race.
RacingLoops(acc) ==
    {s \in Starters : \E f \in ReadsOf(acc) \cap LoopWrites(s) :
                         FieldSync[f] = "plain"}

\* The caller enters an accessor.
ObserverCall(acc) ==
    /\ obsPc = "idle"
    /\ obsPc' = acc
    /\ UNCHANGED <<pollVars, whVars, obsVal, retryVars, backoffVars, srvVars, cliVars>>

\* The accessor returns what it loaded.  An atomic load returns the value
\* of the field; a plain load that races with the loop's store returns the
\* value before or the value after the store.
ObserverReturn ==
    /\ obsPc # "idle"
    /\ \E v \in IF obsPc = "Running" THEN {Running}
                 ELSE IF obsPc = "IsHealthy" THEN {IsHealthy}
                 ELSE IF obsPc = "ConsecutiveErrors" THEN {ConsecutiveErrors}
                 ELSE {Offset} \cup {Head(batch[s]) + 1 : s \in RacingLoops(obsPc)} :
          obsVal' = <<obsPc, v>>
    /\ obsPc' = "idle"
    /\ UNCHANGED <<pollVars, whVars, retryVars, backoffVars, srvVars, cliVars>>

\* ------------------------------------------------------- specification
\* NewLongPollingClient: the state after construction, for every
\* configuration of maxErrors and deleteWebhookOnStart.
ClientInit ==
    /\ maxErrors \in MaxErrorsChoices
    /\ deleteWebhookOnStart \in BOOLEAN
    /\ running = FALSE
    /\ offset = 0
    /\ consecutiveErrors = 0
    /\ stopChClosed = FALSE
    /\ closeOnce = FALSE
    /\ closeCount = 0
    /\ wg = 0
    /\ updates = <<>>
    /\ brState = "closed"
    /\ brCounts = ZeroCounts
    /\ ctxDone = [s \in Starters |-> FALSE]
    /\ startPc = [s \in Starters |-> "idle"]
    /\ startRes = [s \in Starters |-> "none"]
    /\ stopPc = [t \in Stoppers |-> "idle"]
    /\ loopPc = [s \in Starters |-> "none"]
    /\ batch = [s \in Starters |-> <<>>]
    /\ advance = [s \in Starters |-> FALSE]
    /\ stale = [s \in Starters |-> FALSE]
    /\ fatal = [s \in Starters |-> FALSE]
    /\ polls = 0
    /\ retIncr = TRUE
    /\ lastRet = 0
    /\ reqOffset = [s \in Starters |-> 0]
    /\ lastErr = [s \in Starters |-> NoError]
    /\ stopSince = [s \in Starters |-> FALSE]
    /\ orderly = TRUE
    /\ lastSent = 0
    /\ obsPc = "idle"
    /\ obsVal = <<"none", 0>>
    /\ pollingClient = 0
    /\ cStartPc = [k \in Starters |-> "idle"]
    /\ cStartRes = [k \in Starters |-> "none"]
    /\ cCtxDone = [k \in Starters |-> FALSE]
    /\ cStopPc = [t \in Stoppers |-> "idle"]
    /\ cStopTarget = [t \in Stoppers |-> 0]
    /\ instRunning = [k \in Starters |-> FALSE]
    /\ instStopCh = [k \in Starters |-> FALSE]
    /\ instLoop = [k \in Starters |-> "none"]
    /\ feed = <<>>

\* No error has occurred yet: calculateBackoff has not been called.
NoBackoff == attempt = 0 /\ delay = 0 /\ prevDelay = 0

\* StartWebhookServer has not been called.
ServerIdle ==
    /\ srvPc = "idle"
    /\ srvResult = "none"
    /\ srvCtxDone = FALSE
    /\ isShuttingDown = FALSE
    /\ listener = "none"
    /\ drainClock = 0
    /\ shutdownClock = 0
    /\ conns = 0
    /\ probes = 0
    /\ probePath = ""
    /\ probeStatus = 0

\* The retry fields as NewLongPollingClient sets them without the option.
RetryDefaults ==
    /\ retryInitialDelay = defaultRetryInitialDelay
    /\ retryMaxDelay = defaultRetryMaxDelay
    /\ retryBackoffFactor = defaultRetryBackoffFactor
    /\ NoBackoff

\* The polling client of a process in long-polling mode; its webhook
\* handler is constructed and never serves.
Init ==
    /\ ClientInit
    /\ RetryDefaults
    /\ ServerIdle
    /\ HandlerFresh
    /\ allowedDomain = AllowedHost
    /\ webhookSecret = SecretToken

\* The steps of the client and of its callers: the Start calls of
\* `starters` and the Stop calls of `stoppers`, against a platform that
\* answers polls with the outcomes `outs`; `budget` bounds the polls made.
ClientNext(starters, stoppers, outs, budget) ==
    \/ \E s \in starters : StartCAS(s)
    \/ \E s \in starters : StartDeleteWebhook(s)
    \/ \E s \in starters : StartSpawn(s)
    \/ \E s \in starters : StartReturn(s)
    \/ \E s \in starters : CtxCancel(s)
    \/ \E t \in stoppers : StopCAS(t)
    \/ \E t \in stoppers : StopClose(t)
    \/ \E t \in stoppers : StopWait(t)
    \/ \E s \in starters : LoopCheck(s, budget)
    \/ \E s \in starters : LoopRpcDone(s, outs)
    \/ \E s \in starters : LoopBackoffWake(s)
    \/ \E s \in starters : LoopBackoffStop(s)
    \/ \E s \in starters : LoopProcRead(s)
    \/ \E s \in starters : LoopProcWrite(s)
    \/ \E s \in starters : LoopDeferStore(s)
    \/ \E s \in starters : LoopDeferDone(s)

\* Start/Stop life cycle: every Start and Stop call, against a platform that
\* fails polls at the transport and answers with an empty batch or a single
\* update.  The breaker needs three requests to trip, so
\* within MaxPolls polls it stays Closed; its Interval is 0 (the counts are
\* never cleared while Closed).  Nobody receives from the updates channel
\* here: the consumer is part of DataSpec and PollSpec.
BasicOutcomes == Failures({"network"}) \cup Successes({<<>>, <<1>>})

Next == ClientNext(Starters, Stoppers, BasicOutcomes, MaxPolls)

Spec == Init /\ [][Next]_vars

\* Termination of Stop: the client configured with webhook deletion and a
\* ceiling of two errors, every Start and Stop call, a platform that fails
\* a poll or answers with one update, and a consumer that never receives.
\* The ceiling is reached once MaxPollsLive allows two polls.
LiveOutcomes == Failures({"network"}) \cup Successes({<<1>>})

LiveInit == Init /\ maxErrors = 2 /\ deleteWebhookOnStart

LiveNext == ClientNext(Starters, Stoppers, LiveOutcomes, MaxPollsLive)

\* The steps of the Stop call t after its CompareAndSwap, and the steps of
\* the poll loop s.
StopStep(t) == StopClose(t) \/ StopWait(t)

LoopStep(s) ==
    \/ LoopCheck(s, MaxPollsLive)
    \/ LoopRpcDone(s, LiveOutcomes)
    \/ LoopBackoffWake(s)
    \/ LoopProcRead(s)
    \/ LoopProcWrite(s)
    \/ LoopDeferStore(s)
    \/ LoopDeferDone(s)

\* The scheduler runs every goroutine that can take a step: a Stop call
\* goes on to close stopCh and its Wait returns once the counter is zero,
\* a poll loop goes on through its select statements and its deferred
\* calls, the backoff timer fires, and an RPC in flight completes or times
\* out.  (Each goroutine has one next statement, so fairness for the
\* goroutine is fairness for that statement.)
Fairness ==
    /\ \A t \in Stoppers : WF_vars(StopStep(t))
    /\ \A s \in Starters : WF_vars(LoopStep(s))

LiveSpec == LiveInit /\ [][LiveNext]_vars /\ Fairness

\* Offset bookkeeping: both Start calls and one Stop call, against a
\* platform that answers with every outcome and every batch.
DataNext == ClientNext(Starters, {1}, Outcomes, MaxPolls) \/ Receive

DataSpec == Init /\ [][DataNext]_vars

\* One poll loop over a longer run: one Start and one Stop call, every
\* kind of outcome, and the breaker's clock (rolling Interval and open Timeout).
PollOutcomes == Failures(FailKinds) \cup Successes({<<>>, <<1>>})

PollNext ==
    \/ ClientNext({1}, {1}, PollOutcomes, MaxPollsOne)
    \/ Receive
    \/ BreakerIntervalExpire
    \/ BreakerTimeoutExpire

PollSpec == Init /\ [][PollNext]_vars

\* One poll loop with its Start and Stop call, and a health-check goroutine
\* that calls the accessors of the client at any time.
ObserveNext ==
    \/ ClientNext({1}, {1}, BasicOutcomes, MaxPolls)
    \/ Receive
    \/ \E acc \in Accessors : ObserverCall(acc)
    \/ ObserverReturn

ObserveSpec == Init /\ [][ObserveNext]_vars

\* calculateBackoff for a run of consecutive errors, under every retry
\* configuration WithRetryConfig can leave behind.
BackoffInit ==
    /\ ClientInit
    /\ ServerIdle
    /\ HandlerFresh
    /\ allowedDomain = AllowedHost
    /\ webhookSecret = SecretToken
    /\ \E i \in InitialDelayArgs, m \in MaxDelayArgs, f \in BackoffFactorArgs :
          /\ retryInitialDelay = WithRetryConfig(i, m, f).retryInitialDelay
          /\ retryMaxDelay = WithRetryConfig(i, m, f).retryMaxDelay
          /\ retryBackoffFactor = WithRetryConfig(i, m, f).retryBackoffFactor
    /\ NoBackoff

BackoffNext == Backoff

BackoffSpec == BackoffInit /\ [][BackoffNext]_vars

\* StartWebhookServer from its call to its return, with the process
\* context, the clock, health probes and webhook requests.
ServerNext ==
    \/ SrvCall
    \/ SrvValidate
    \/ SrvEnsureLogPath
    \/ SrvRegister
    \/ SrvListen
    \/ SrvCtxCancel
    \/ SrvMark
    \/ SrvTick
    \/ SrvShutdown
    \/ SrvShutdownReturn
    \/ \E path \in ProbePaths : Probe(path)
    \/ ConnOpen
    \/ ConnClose

ServerSpec == Init /\ [][ServerNext]_vars

\* The webhook handler of a process in webhook mode; the polling client is
\* constructed and never started.
WhInit ==
    /\ ClientInit
    /\ RetryDefaults
    /\ ServerIdle
    /\ maxErrors = 0
    /\ ~deleteWebhookOnStart
    /\ HandlerFresh
    /\ allowedDomain = AllowedHost
    /\ webhookSecret = SecretToken

\* The steps of the handler: the goroutines of `handlers` serve up to
\* `budget` requests drawn from `reqs`, the bucket refills and the consumer
\* receives.
HandlerNext(handlers, reqs, budget) ==
    \/ \E r \in handlers : \E q \in reqs : WhAllow(r, q, budget)
    \/ \E r \in handlers : WhBefore(r)
    \/ \E r \in handlers : WhRead(r)
    \/ \E r \in handlers : WhForward(r)
    \/ \E r \in handlers : WhAfter(r)
    \/ LimiterRefill
    \/ WhReceive

\* Concurrent requests to a handler with host and secret configured:
\* matching requests with every body and one with a wrong secret.  Within
\* MaxServed requests the breaker stays Closed.
WhRequests ==
    BodyRequests \cup {q \in AuthRequests : /\ q.host = AllowedHost
                                            /\ q.secret # SecretToken
                                            /\ q.method = "POST"}

WhNext == HandlerNext(Handlers, WhRequests, MaxServed)

WhSpec == WhInit /\ [][WhNext]_vars

\* One goroutine over a longer run with host and secret configured, so
\* that the breaker trips, stays Open for its Timeout and recovers: every
\* host/secret/method combination and a request whose body cannot be read.
BreakerRequests ==
    AuthRequests \cup {q \in BodyRequests : q.body.kind = "unreadable"}

WhBreakerNext ==
    \/ HandlerNext({1}, BreakerRequests, MaxServedOne)
    \/ WhBreakerIntervalExpire
    \/ WhBreakerTimeoutExpire

WhBreakerSpec == WhInit /\ [][WhBreakerNext]_vars

\* One goroutine serving every host/secret/method combination with a body
\* that parses and with one that does not.
OrderRequests ==
    [host : Hosts, secret : SecretHeaders, method : Methods,
     body : {ValidBody, [kind |-> "garbage", update |-> NoUpdate]}]

OrderNext == HandlerNext({1}, OrderRequests, MaxServed)

OrderSpec == WhInit /\ [][OrderNext]_vars

\* One goroutine, no consumer: requests that fail the host, the secret or
\* the method check, and the request that passes all three with a body
\* that parses.  The bucket refills and the breaker's clocks run.
RejectedNext ==
    \/ \E q \in AuthRequests : WhAllow(1, q, MaxServedOne)
    \/ WhBefore(1)
    \/ WhRead(1)
    \/ WhForward(1)
    \/ WhAfter(1)
    \/ LimiterRefill
    \/ WhBreakerIntervalExpire
    \/ WhBreakerTimeoutExpire

RejectedSpec == WhInit /\ [][RejectedNext]_vars

\* ------------------------------------------- Client (long-polling mode)
MaxFeeds == 2       \* updates placed on c.updates in a run of ReceiverSpec

\* Calls on the Client are made one after the other: none is in progress.
NoCallInProgress ==
    /\ \A k \in Starters : cStartPc[k] \in {"idle", "ret"}
    /\ \A t \in Stoppers : cStopPc[t] \in {"idle", "ret"}

InstAlive(k) == instLoop[k] \in {"check", "rpc"}

\* Client.Start in ModeLongPolling, that is startPolling up to the
\* assignment of c.pollingClient: the logger is taken from the config or
\* created (which can fail), the options are collected and a new
\* LongPollingClient is constructed over c.updates and stored in the
\* field, whatever the field held before.
startPolling(k) ==
    /\ NoCallInProgress
    /\ cStartPc[k] = "idle"
    /\ k > 1 => cStartPc[k - 1] # "idle"
    /\ \E loggerOk \in BOOLEAN :
          IF loggerOk
          THEN /\ pollingClient' = k
               /\ cStartPc' = [cStartPc EXCEPT ![k] = "start"]
               /\ UNCHANGED cStartRes
          ELSE /\ cStartPc' = [cStartPc EXCEPT ![k] = "ret"]
               /\ cStartRes' = [cStartRes EXCEPT ![k] = "ErrCreatingLogger"]
               /\ UNCHANGED pollingClient
    /\ UNCHANGED <<pollVars, whVars, obsVars, retryVars, backoffVars, srvVars,
                   cCtxDone, cStopPc, cStopTarget, instRunning, instStopCh,
                   instLoop, feed>>

\* return c.pollingClient.Start(ctx): the CompareAndSwap on the running
\* flag of the client in the field.
InstStart(k) ==
    /\ cStartPc[k] = "start"
    /\ LET p == pollingClient IN
          IF instRunning[p]
          THEN /\ cStartPc' = [cStartPc EXCEPT ![k] = "ret"]
               /\ cStartRes' = [cStartRes EXCEPT ![k] = "ErrPollingAlreadyRunning"]
               /\ UNCHANGED instRunning
          ELSE /\ instRunning' = [instRunning EXCEPT ![p] = TRUE]
               /\ cStartPc' = [cStartPc EXCEPT ![k] =
                                 IF deleteWebhookOnStart THEN "delete" ELSE "spawn"]
               /\ UNCHANGED cStartRes
    /\ UNCHANGED <<pollVars, whVars, obsVars, retryVars, backoffVars, srvVars,
                   pollingClient, cCtxDone, cStopPc, cStopTarget, instStopCh,
                   instLoop, feed>>

\* DeleteWebhookWithClient returns inside that Start.
InstStartDelete(k) ==
    /\ cStartPc[k] = "delete"
    /\ \E ok \in IF cCtxDone[k] THEN {FALSE} ELSE BOOLEAN :
          IF ok
          THEN /\ cStartPc' = [cStartPc EXCEPT ![k] = "spawn"]
               /\ UNCHANGED <<instRunning, cStartRes>>
          ELSE /\ instRunning' = [instRunning EXCEPT ![pollingClient] = FALSE]
               /\ cStartPc' = [cStartPc EXCEPT ![k] = "ret"]
               /\ cStartRes' = [cStartRes EXCEPT ![k] = "ErrDeleteWebhook"]
    /\ UNCHANGED <<pollVars, whVars, obsVars, retryVars, backoffVars, srvVars,
                   pollingClient, cCtxDone, cStopPc, cStopTarget, instStopCh,
                   instLoop, feed>>

\* c.wg.Add(1); go c.pollLoop(ctx); return nil
InstStartSpawn(k) ==
    /\ cStartPc[k] = "spawn"
    /\ instLoop' = [instLoop EXCEPT ![pollingClient] = "check"]
    /\ cStartPc' = [cStartPc EXCEPT ![k] = "ret"]
    /\ cStartRes' = [cStartRes EXCEPT ![k] = "nil"]
    /\ UNCHANGED <<pollVars, whVars, obsVars, retryVars, backoffVars, srvVars,
                   pollingClient, cCtxDone, cStopPc, cStopTarget, instRunning,
                   instStopCh, feed>>

\* The caller cancels the ctx it gave to Client.Start call k.
ClientCtxCancel(k) ==
    /\ cStartPc[k] # "idle"
    /\ ~cCtxDone[k]
    /\ cCtxDone' = [cCtxDone EXCEPT ![k] = TRUE]
    /\ UNCHANGED <<pollVars, whVars, obsVars, retryVars, backoffVars, srvVars,
                   pollingClient, cStartPc, cStartRes, cStopPc, cStopTarget,
                   instRunning, instStopCh, instLoop, feed>>

\* pollLoop of client k at its select: it returns (its defers clear the
\* running flag of client k and release its WaitGroup) when its ctx is
\* cancelled or its own stopCh is closed, and polls otherwise.
InstLoopCheck(k) ==
    /\ instLoop[k] = "check"
    /\ IF cCtxDone[k] \/ instStopCh[k]
       THEN /\ instLoop' = [instLoop EXCEPT ![k] = "exited"]
            /\ instRunning' = [instRunning EXCEPT ![k] = FALSE]
       ELSE /\ Len(feed) < MaxFeeds
            /\ instLoop' = [instLoop EXCEPT ![k] = "rpc"]
            /\ UNCHANGED instRunning
    /\ UNCHANGED <<pollVars, whVars, obsVars, retryVars, backoffVars, srvVars,
                   pollingClient, cStartPc, cStartRes, cCtxDone, cStopPc,
                   cStopTarget, instStopCh, feed>>

\* The poll of client k returns: an update, which the loop places on
\* c.updates when there is room, an empty batch, or the error that reaches
\* maxErrors and makes the loop return.
InstLoopPoll(k) ==
    /\ instLoop[k] = "rpc"
    /\ \E o \in {"update", "empty"} \cup (IF maxErrors > 0 THEN {"fatal"} ELSE {}) :
          /\ instLoop' = [instLoop EXCEPT ![k] = IF o = "fatal" THEN "exited" ELSE "check"]
          /\ instRunning' = IF o = "fatal" THEN [instRunning EXCEPT ![k] = FALSE]
                                           ELSE instRunning
          /\ feed' = IF o = "update" /\ Len(feed) < MaxFeeds THEN Append(feed, k)
                                                              ELSE feed
    /\ UNCHANGED <<pollVars, whVars, obsVars, retryVars, backoffVars, srvVars,
                   pollingClient, cStartPc, cStartRes, cCtxDone, cStopPc,
                   cStopTarget, instStopCh>>

\* Client.Stop: if c.pollingClient != nil { c.pollingClient.Stop() }
ClientStop(t) ==
    /\ NoCallInProgress
    /\ cStopPc[t] = "idle"
    /\ t > 1 => cStopPc[t - 1] # "idle"
    /\ IF pollingClient = 0
       THEN /\ cStopPc' = [cStopPc EXCEPT ![t] = "ret"]
            /\ UNCHANGED cStopTarget
       ELSE /\ cStopPc' = [cStopPc EXCEPT ![t] = "cas"]
            /\ cStopTarget' = [cStopTarget EXCEPT ![t] = pollingClient]
    /\ UNCHANGED <<pollVars, whVars, obsVars, retryVars, backoffVars, srvVars,
                   pollingClient, cStartPc, cStartRes, cCtxDone, instRunning,
                   instStopCh, instLoop, feed>>

\* LongPollingClient.Stop of that client: CompareAndSwap(true, false)
InstStopCAS(t) ==
    /\ cStopPc[t] = "cas"
    /\ IF instRunning[cStopTarget[t]]
       THEN /\ instRunning' = [instRunning EXCEPT ![cStopTarget[t]] = FALSE]
            /\ cStopPc' = [cStopPc EXCEPT ![t] = "close"]
       ELSE /\ cStopPc' = [cStopPc EXCEPT ![t] = "ret"]
            /\ UNCHANGED instRunning
    /\ UNCHANGED <<pollVars, whVars, obsVars, retryVars, backoffVars, srvVars,
                   pollingClient, cStartPc, cStartRes, cCtxDone, cStopTarget,
                   instStopCh, instLoop, feed>>

\* closeOnce.Do(close(stopCh)) of that client
InstStopClose(t) ==
    /\ cStopPc[t] = "close"
    /\ instStopCh' = [instStopCh EXCEPT ![cStopTarget[t]] = TRUE]
    /\ cStopPc' = [cStopPc EXCEPT ![t] = "wait"]
    /\ UNCHANGED <<pollVars, whVars, obsVars, retryVars, backoffVars, srvVars,
                   pollingClient, cStartPc, cStartRes, cCtxDone, cStopTarget,
                   instRunning, instLoop, feed>>

\* wg.Wait() of that client, then Client.Stop returns.
InstStopWait(t) ==
    /\ cStopPc[t] = "wait"
    /\ ~InstAlive(cStopTarget[t])
    /\ cStopPc' = [cStopPc EXCEPT ![t] = "ret"]
    /\ UNCHANGED <<pollVars, whVars, obsVars, retryVars, backoffVars, srvVars,
                   pollingClient, cStartPc, cStartRes, cCtxDone, cStopTarget,
                   instRunning, instStopCh, instLoop, feed>>

\* A Client in long-polling mode: its Start and Stop calls, made one after
\* the other, the poll loops they leave behind and the cancellation of the
\* contexts.
ReceiverNext ==
    \/ \E k \in Starters : startPolling(k)
    \/ \E k \in Starters : InstStart(k)
    \/ \E k \in Starters : InstStartDelete(k)
    \/ \E k \in Starters : InstStartSpawn(k)
    \/ \E k \in Starters : ClientCtxCancel(k)
    \/ \E k \in Starters : InstLoopCheck(k)
    \/ \E k \in Starters : InstLoopPoll(k)
    \/ \E t \in Stoppers : ClientStop(t)
    \/ \E t \in Stoppers : InstStopCAS(t)
    \/ \E t \in Stoppers : InstStopClose(t)
    \/ \E t \in Stoppers : InstStopWait(t)

ReceiverSpec == Init /\ [][ReceiverNext]_vars

\* ------------------------------------------------------------- properties
\* Positions of a Start call past a successful CompareAndSwap, and of a poll
\* loop that is alive.
StartWon(s) == startPc[s] \in {"delete", "spawn", "spawned"} \/ startRes[s] = "nil"
LoopAlive(s) == loopPc[s] \notin {"none", "exited"}
LoopReturning(s) == loopPc[s] \in {"defer_store", "defer_done", "exited"}
StartCASStep(s) == startPc[s] = "idle" /\ startPc'[s] # "idle"

\* C1 (first half): a Start() whose CompareAndSwap finds the client Running
\* returns ErrPollingAlreadyRunning, spawns no loop and leaves running,
\* offset, consecutiveErrors and the WaitGroup as they were.
C1_RejectedStartIsNoOp ==
    \A s \in Starters :
        (StartCASStep(s) /\ running) =>
            /\ startRes'[s] = "ErrPollingAlreadyRunning"
            /\ startPc'[s] = "ret"
            /\ UNCHANGED <<running, offset, consecutiveErrors, wg, loopPc>>

\* C1 (second half, as amended): without webhook deletion, as long as no
\* Stop() has run and no poll loop has returned, at most one Start() call is
\* past a successful CompareAndSwap, and once every call has returned
\* exactly one returned nil and exactly one loop was spawned.
C1_Undisturbed ==
    /\ ~deleteWebhookOnStart
    /\ \A t \in Stoppers : stopPc[t] = "idle"
    /\ \A s \in Starters : ~LoopReturning(s)

C1_OneWinner ==
    C1_Undisturbed =>
        /\ Cardinality({s \in Starters : StartWon(s)}) <= 1
        /\ Cardinality({s \in Starters : loopPc[s] # "none"}) <= 1
        /\ (\A s \in Starters : startPc[s] = "ret") =>
              /\ Cardinality({s \in Starters : startRes[s] = "nil"}) = 1
              /\ Cardinality({s \in Starters : loopPc[s] # "none"}) = 1
        /\ \A s \in Starters :
              startRes[s] = "ErrPollingAlreadyRunning" => loopPc[s] = "none"

\* C1, amended claim.
C1_StartWhileRunning == [][C1_RejectedStartIsNoOp]_vars /\ []C1_OneWinner

\* C1 witness: one Start() returned nil, its loop has an RPC in flight, and
\* the other Start() was rejected.
C1_Witness ==
    \E s1, s2 \in Starters :
        /\ startRes[s1] = "nil" /\ loopPc[s1] = "rpc"
        /\ startRes[s2] = "ErrPollingAlreadyRunning"

\* C1 as stated: without webhook deletion and without any Stop(), of the
\* Start() calls in progress at the same time only one gets past the
\* CompareAndSwap.
C1_Original ==
    (~deleteWebhookOnStart /\ \A t \in Stoppers : stopPc[t] = "idle") =>
        Cardinality({s \in Starters : startPc[s] \in {"spawn", "spawned"}}) <= 1

\* C2 as stated: a Stop() call returns only when no poll loop is alive.
StopReturnStep(t) == stopPc[t] # "ret" /\ stopPc'[t] = "ret"

C2_StopReturnsAfterLoopExit ==
    [][\A t \in Stoppers : StopReturnStep(t) => \A s \in Starters : ~LoopAlive(s)]_vars

\* C3: stopCh is closed at most once, whatever the interleaving of Stop()
\* calls, Start() calls and loops returning on their own.
C3_NoDoubleClose == closeCount <= 1 /\ (stopChClosed <=> closeCount = 1)

\* C3 witness: two Stop() calls both won their CompareAndSwap (a Start() ran
\* between them) and both are past closeOnce.Do, waiting for the loops.
C3_Witness == (\A t \in Stoppers : stopPc[t] = "wait") /\ closeCount = 1

AllProcessed == \A s \in Starters : loopPc[s] \notin {"proc", "proc_write"}

C5_OffsetIsLastIdPlusOne ==
    (retIncr /\ lastRet > 0 /\ AllProcessed) => offset = lastRet + 1

\* C6 as stated: no step decreases the offset.
C6_OffsetNeverDecreases == [][offset' >= offset]_vars

\* C7: a poll that ends (the RPC returns with any outcome, or the breaker
\* rejects the attempt) and fails adds exactly one to consecutiveErrors;
\* a poll that succeeds sets it to zero.
PollFailedStep(s) ==
    loopPc[s] \in {"check", "rpc"} /\ loopPc'[s] \in {"backoff", "defer_store"}
        /\ polls' + (IF loopPc[s] = "rpc" THEN 1 ELSE 0) = polls + 1
PollSucceededStep(s) == loopPc[s] = "rpc" /\ loopPc'[s] \in {"check", "proc"}

C7_Step ==
    \A s \in Starters :
        /\ \A o \in Outcomes :
              RpcOutcome(s, o) =>
                  /\ (o.kind \in FailKinds) <=> PollFailedStep(s)
                  /\ (o.kind = "ok") <=> PollSucceededStep(s)
        /\ PollFailedStep(s) => consecutiveErrors' = consecutiveErrors + 1
        /\ PollSucceededStep(s) => consecutiveErrors' = 0

C7_ErrorCount == [][C7_Step]_vars

\* C7 witness: two transport failures, then a successful poll, and the
\* count is back at zero.
C7_Witness ==
    /\ brCounts.TotalFailures = 2 /\ brCounts.ConsecutiveSuccesses = 1
    /\ polls = 3 /\ consecutiveErrors = 0
    /\ loopPc[1] \in {"check", "proc"}

\* C8: IsHealthy() is Running AND (maxErrors = 0 OR consecutiveErrors <
\* maxErrors); it is false before any Start(), right after a Stop() flipped
\* the flag, right after the poll that reached the ceiling, and right after
\* a loop returned.
StopWonStep(t) == stopPc[t] = "idle" /\ stopPc'[t] = "close"
FatalStep(s) == ~fatal[s] /\ fatal'[s]
LoopStoreStep(s) == loopPc[s] = "defer_store" /\ loopPc'[s] = "defer_done"

C8_Formula ==
    /\ IsHealthy <=> (running /\ (maxErrors = 0 \/ consecutiveErrors < maxErrors))
    /\ (\A s \in Starters : startPc[s] = "idle") => ~IsHealthy

C8_Step ==
    /\ \A t \in Stoppers : StopWonStep(t) => ~IsHealthy'
    /\ \A s \in Starters : (FatalStep(s) \/ LoopStoreStep(s)) => ~IsHealthy'

C8_IsHealthy == []C8_Formula /\ [][C8_Step]_vars

\* C8 witness: running with one error under a ceiling of two, so healthy.
C8_Witness == running /\ maxErrors = 2 /\ consecutiveErrors = 1 /\ IsHealthy

\* C9 (as amended): with maxErrors = N > 0 the failed poll that brings the
\* count to N makes the loop return for good (no further RPC by that loop),
\* no Start() call returns an error for it, IsHealthy() is false right after
\* that poll, and once the loop has stored running = false, Running() and
\* IsHealthy() stay false until a Start() call wins its CompareAndSwap.
Terminated(s) == fatal[s] /\ loopPc[s] \in {"defer_done", "exited"}

C9_State ==
    \A s \in Starters :
        fatal[s] => /\ LoopReturning(s)
                    /\ startRes[s] \in {"none", "nil"}
                    /\ maxErrors > 0

C9_Step ==
    /\ \A s \in Starters :
          /\ (PollFailedStep(s) /\ maxErrors > 0 /\ consecutiveErrors' >= maxErrors)
                => (fatal'[s] /\ loopPc'[s] = "defer_store" /\ ~IsHealthy')
          /\ (fatal[s] /\ LoopStoreStep(s)) => (~running' /\ ~IsHealthy')
    /\ ((\E s \in Starters : Terminated(s)) /\ ~running /\ running')
          => \E s \in Starters : StartCASStep(s)
    /\ ((\E s \in Starters : Terminated(s)) /\ ~running /\ IsHealthy') => running'

C9_FatalTermination == []C9_State /\ [][C9_Step]_vars

\* C9 witness: maxErrors = 2, two failed polls, the loop has exited, its
\* Start() had returned nil, and the client is neither running nor healthy.
C9_Witness ==
    \E s \in Starters :
        /\ fatal[s] /\ loopPc[s] = "exited" /\ startRes[s] = "nil"
        /\ maxErrors = 2 /\ consecutiveErrors = 2 /\ ~running /\ ~IsHealthy

\* C9 as stated: once the loop has terminated on maxErrors and Running() is
\* false, Running() stays false.
C9_Original ==
    [][((\E s \in Starters : Terminated(s)) /\ ~running) => ~running']_vars

\* C10: when deleteWebhook fails, Start() returns the wrapped error, has
\* stored running = false, spawns no loop and issues no getUpdates.
DeleteFailedStep(s) == startPc[s] = "delete" /\ startPc'[s] = "ret"

C10_Step ==
    \A s \in Starters :
        DeleteFailedStep(s) =>
            /\ startRes'[s] = "ErrDeleteWebhook"
            /\ ~running'
            /\ UNCHANGED <<loopPc, wg, polls>>

C10_State ==
    \A s \in Starters :
        startRes[s] = "ErrDeleteWebhook" => (deleteWebhookOnStart /\ loopPc[s] = "none")

C10_DeleteWebhookFailure == []C10_State /\ [][C10_Step]_vars

\* C10 witness: a Start() returned the deleteWebhook error and the client
\* is Idle with no loop.
C10_Witness ==
    \E s \in Starters :
        /\ startRes[s] = "ErrDeleteWebhook" /\ ~running
        /\ \A s2 \in Starters : loopPc[s2] = "none"

\* C11 as stated: as long as the platform returned every batch sorted by id
\* and with no id below the offset it was asked for, the ids placed on the
\* updates channel are strictly increasing.
SendStep(s) == loopPc[s] = "proc_write" /\ loopPc'[s] # "proc_write"
                   /\ Len(updates) < SinkCap

C11_SinkStrictlyIncreasing ==
    [][\A s \in Starters : (SendStep(s) /\ orderly) => lastSent < Head(batch[s])]_vars

\* ------------------------------------------------ properties of ServeHTTP
\* Goroutine r takes the next request (the lowest free goroutine serves it).
ArrivalStep(r) ==
    /\ served' = served + 1
    /\ WhFree(r)
    /\ \A x \in Handlers : x < r => ~WhFree(x)

\* Goroutine r writes the response of its request: at once when the limiter
\* or the breaker refuses it, after afterRequest otherwise.
Responds(r) ==
    \/ ArrivalStep(r) /\ whPc'[r] = "done"
    \/ whPc[r] \in {"before", "after"} /\ whPc'[r] = "done"

\* The response body and status of a finished request.
Answered(r) == whPc[r] = "done"

\* C12: a webhook request is answered 200 exactly when its own update was
\* placed on the Sink, once; a request answered with any other status
\* placed nothing; and the Sink only ever grows by the update of a request
\* at its forward step.
C12_OkIffEnqueuedOnce ==
    [][/\ \A r \in Handlers :
             Responds(r) =>
                /\ whResp'[r] = 200 <=>
                      /\ whReq'[r].body.kind = "json"
                      /\ placed'[r] = <<Unmarshal(whReq'[r].body)>>
                /\ whResp'[r] # 200 => placed'[r] = <<>>
       /\ whUpdates' # whUpdates =>
             \/ whUpdates # <<>> /\ whUpdates' = Tail(whUpdates)
             \/ \E r \in Handlers :
                   /\ whPc[r] = "forward"
                   /\ whUpdates' = Append(whUpdates, Unmarshal(whReq[r].body))
                   /\ placed'[r] = <<Unmarshal(whReq[r].body)>>
                   /\ \A x \in Handlers \ {r} : placed'[x] = placed[x]]_vars

\* Two requests with different payloads served at the same time, both
\* answered 200 with both updates on the Sink.
C12_Witness ==
    /\ Answered(1) /\ Answered(2)
    /\ whResp[1] = 200 /\ whResp[2] = 200
    /\ whReq[1].body # whReq[2].body
    /\ Len(whUpdates) = 2
    /\ served = 2

\* The status the host, secret and method of a request call for when host
\* and secret are configured: 403, 401, 405 in this order, 200 on a match.
Expected(q) ==
    IF q.host # AllowedHost THEN 403
    ELSE IF q.secret # SecretToken THEN 401
    ELSE IF q.method # "POST" THEN 405
    ELSE 200

\* C13 as stated: with host and secret configured, the status of a request
\* with a well-formed body is a function of its host, secret and method
\* alone, whatever requests came before.
C13_Original ==
    [][\A r \in Handlers :
          (Responds(r) /\ whReq'[r].body = ValidBody)
             => whResp'[r] = Expected(whReq'[r])]_vars

\* C13: with host and secret configured, a request with a well-formed body
\* that the limiter and the breaker let through is answered 403, 401 or 405
\* for the first of host, secret and method that does not match, and 200 on
\* a match unless the Sink was full (503); a request refused by the limiter
\* is answered 429 and one refused by the breaker 500, whatever its host,
\* secret and method.
C13_ValidationStatus ==
    [][\A r \in Handlers :
          (Responds(r) /\ whReq'[r].body = ValidBody) =>
             LET q == whReq'[r] IN
                \/ whResp'[r] = Expected(q)
                \/ /\ whResp'[r] = 429
                   /\ ArrivalStep(r) /\ tokens = 0
                \/ /\ whResp'[r] = 500
                   /\ whPc[r] = "before" /\ WhBreakerRejects
                \/ /\ whResp'[r] = 503
                   /\ Expected(q) = 200 /\ whErr[r] = "ErrChannelBlocked"]_vars

\* A request with matching host and secret but method GET has been
\* answered 405 after the breaker has counted requests that failed.
C13_Witness ==
    /\ Answered(1)
    /\ whReq[1].host = AllowedHost /\ whReq[1].secret = SecretToken
    /\ whReq[1].method = "GET"
    /\ whResp[1] = 405
    /\ whBrCounts.ConsecutiveFailures >= 3

\* A request whose host, secret, method and body are all in order.
GoodRequest(q) == Validate(q) = "nil" /\ q.body.kind = "json"

\* The admission half of C14: in an instant that began with a full bucket
\* the first WhBurst calls of Allow() are admitted and the next is answered
\* 429.
BurstAdmission ==
    \A r \in Handlers :
       (ArrivalStep(r) /\ instFull) =>
          IF instCalls < WhBurst
          THEN whPc'[r] = "before" /\ whResp'[r] = 0
          ELSE whPc'[r] = "done" /\ whResp'[r] = 429

\* C14 as stated: the first WhBurst valid requests of an instant that began
\* with a full bucket are all admitted and all succeed, and the next request
\* of that instant is answered 429.
C14_Original ==
    [][/\ BurstAdmission
       /\ \A r \in Handlers :
             (Responds(r) /\ inBurst'[r] /\ GoodRequest(whReq'[r]))
                => whResp'[r] = 200]_vars

\* C14: the first WhBurst requests of an instant that began with a full
\* bucket are all admitted by the limiter and the next request of that
\* instant is answered 429; an admitted valid request is answered 200
\* provided the breaker lets it through and the Sink has room, and is
\* answered 500 or 503 otherwise.
C14_BurstAdmitted ==
    [][/\ BurstAdmission
       /\ \A r \in Handlers :
             (Responds(r) /\ inBurst'[r] /\ GoodRequest(whReq'[r])) =>
                \/ whResp'[r] = 200
                \/ /\ whResp'[r] = 503
                   /\ whErr[r] = "ErrChannelBlocked"
                \/ /\ whResp'[r] = 500
                   /\ whPc[r] = "before" /\ WhBreakerRejects]_vars

\* WhBurst valid requests of one instant have succeeded and the next
\* request of that instant has been answered 429.
C14_Witness ==
    /\ instFull /\ instCalls = WhBurst + 1
    /\ tokens = 0
    /\ Len(whUpdates) = WhBurst
    /\ \E r \in Handlers : Answered(r) /\ whResp[r] = 429
    /\ \A r \in Handlers : ~WhInFlight(r) /\ whPc[r] \in {"idle", "done"}

\* C15: a request that finds no token is answered 429 on the step it
\* arrives, and that step leaves the breaker's state and counts, the buffer
\* pool and the Sink as they were; 429 is answered on no other step.
C15_RateLimitedFrame ==
    [][\A r \in Handlers :
          /\ (ArrivalStep(r) /\ tokens = 0) =>
                /\ whResp'[r] = 429
                /\ whPc'[r] = "done"
                /\ UNCHANGED <<whBrState, whBrCounts, whStale>>
                /\ UNCHANGED <<bufData, whBuf>>
                /\ UNCHANGED whUpdates
                /\ placed'[r] = <<>>
          /\ (whResp'[r] = 429 /\ whResp[r] # 429) =>
                ArrivalStep(r) /\ tokens = 0]_vars

\* A request has been answered 429 while the breaker holds the counts of
\* the two requests admitted before it.
C15_Witness ==
    /\ \E r \in Handlers : Answered(r) /\ whResp[r] = 429
    /\ whBrState = "closed"
    /\ whBrCounts.Requests = WhBurst
    /\ whBrCounts.TotalFailures = 1
    /\ Len(whUpdates) = 1

\* C16: at the forward step with the Sink full the handler does not wait:
\* the step ends with the channel-blocked error and the Sink as it was, the
\* handler goes on to answer 503 with the text of that error, and no
\* goroutine is ever left unable to move.
C16_FullSinkNeverBlocks ==
    [][\A r \in Handlers :
          /\ (/\ whPc[r] = "forward"
              /\ whPc'[r] # "forward"
              /\ Parses(bufData[whBuf[r]])
              /\ Len(whUpdates) = WhSinkCap) =>
                /\ whErr'[r] = "ErrChannelBlocked"
                /\ whPc'[r] = "after"
                /\ UNCHANGED whUpdates
          /\ (whPc[r] = "after" /\ whPc'[r] = "done"
                                /\ whErr[r] = "ErrChannelBlocked") =>
                /\ whResp'[r] = 503
                /\ BodyOf(whErr'[r]) = "updates channel blocked"
                /\ UNCHANGED whUpdates
          /\ whPc[r] = "forward" => ENABLED WhForward(r)]_vars

\* A request has been answered 503 with the Sink still full of the updates
\* of earlier requests.
C16_Witness ==
    /\ \E r \in Handlers :
          /\ Answered(r)
          /\ whResp[r] = 503
          /\ whErr[r] = "ErrChannelBlocked"
          /\ placed[r] = <<>>
    /\ Len(whUpdates) = WhSinkCap

\* The failure kinds of ServeHTTP, each named by the error that stands for
\* it, and the status each is answered with.
FailureKinds ==
    {"rate limit exceeded", "ErrForbidden", "ErrUnauthorized",
     "ErrMethodNotAllowed", "ErrInvalidJSON", "ErrBodyReadFailed",
     "ErrChannelBlocked", "ErrOpenState"}
KindOf(err) == IF err \in BreakerErrors THEN "ErrOpenState" ELSE err
KindStatus(kind) == IF kind = "rate limit exceeded" THEN 429 ELSE StatusOf(kind)

\* C17: success is answered 200 with an empty body, and the status of a
\* failed request is the status of no other failure kind.
C17_StatusIdentifiesFailure ==
    \A r \in Handlers :
       Answered(r) =>
          /\ whErr[r] = "nil" => whResp[r] = 200 /\ BodyOf(whErr[r]) = ""
          /\ whErr[r] # "nil" =>
                /\ whResp[r] # 200
                /\ \A k \in FailureKinds \ {KindOf(whErr[r])} :
                      KindStatus(k) # whResp[r]

\* C18: a failed request recorded by the Closed webhook breaker opens it
\* exactly when the counts of the rolling interval, this failure included,
\* show at least 3 requests of which at least 60% failed.
C18_WebhookBreakerPolicy ==
    [][\A r \in Handlers :
          (/\ whPc[r] = "after" /\ whPc'[r] = "done"
           /\ whBrState = "closed"
           /\ ~whStale[r]
           /\ whErr[r] # "nil") =>
              (whBrState' = "open" <=> ReadyToTrip(OnFailure(whBrCounts)))]_vars

\* A process runs in one mode (RECEIVER_MODE): its polling client polls and
\* its webhook handler never serves, or the handler serves and the client,
\* left at its defaults, is never started.
ClientUntouched ==
    /\ maxErrors = 0 /\ ~deleteWebhookOnStart
    /\ \A s \in Starters : startPc[s] = "idle"
    /\ \A t \in Stoppers : stopPc[t] = "idle"

ModeNext ==
    \/ served = 0 /\ PollNext
    \/ ClientUntouched /\ WhBreakerNext

ModeSpec == Init /\ [][ModeNext]_vars

\* C19: a request that passed the limiter and meets the webhook breaker
\* Open is answered at once with the breaker's error: no buffer is taken, no
\* body read, nothing decoded or sent, and the breaker counts nothing.
\* Likewise a poll attempt that meets the polling breaker Open fails without
\* its RPC being issued or counted.
C19_OpenFailsFast ==
    [][/\ \A r \in Handlers :
             (whPc[r] = "before" /\ whPc'[r] # "before" /\ whBrState = "open") =>
                /\ whPc'[r] = "done"
                /\ whErr'[r] = "ErrOpenState"
                /\ whResp'[r] = 500
                /\ UNCHANGED <<whBuf, bufData>>
                /\ UNCHANGED <<whUpdates, placed>>
                /\ UNCHANGED <<whBrState, whBrCounts>>
       /\ \A s \in Starters :
             (loopPc[s] = "check" /\ polls' = polls + 1 /\ brState = "open") =>
                /\ loopPc'[s] # "rpc"
                /\ consecutiveErrors' = consecutiveErrors + 1
                /\ UNCHANGED <<brState, brCounts, reqOffset>>]_vars

\* The webhook breaker is Open after six failed requests and the next
\* request has been answered by it.
C19_Witness ==
    /\ whBrState = "open"
    /\ \E r \in Handlers :
          /\ Answered(r)
          /\ whErr[r] = "ErrOpenState"
          /\ whResp[r] = 500
          /\ whBuf[r] = 0

\* The handler has served exactly the requests of its two goroutines, both
\* valid, taken up at the same time (the second goroutine only takes a
\* request while the first is busy) and both answered.
ConcurrentPair ==
    /\ served = 2
    /\ \A r \in Handlers : Answered(r) /\ GoodRequest(whReq[r])

\* C20: N = 2 valid requests served concurrently by a fresh handler, with
\* N within the burst and within the capacity of the Sink: in every
\* interleaving both are answered 200, each has placed exactly its own
\* update once, and what is on the Sink is made of exactly these updates,
\* minus what the consumer has received, in the order they were sent.
C20_ConcurrentRequests ==
    ConcurrentPair =>
       /\ \A r \in Handlers :
             /\ whResp[r] = 200
             /\ placed[r] = <<Unmarshal(whReq[r].body)>>
       /\ \E r \in Handlers : \E x \in Handlers \ {r} :
             whUpdates \in {placed[r] \o placed[x], placed[x], <<>>}

\* Both requests, with different payloads, are answered and the consumer
\* has received nothing yet.
C20_Witness ==
    /\ ConcurrentPair
    /\ Unmarshal(whReq[1].body) # Unmarshal(whReq[2].body)
    /\ whUpdates = <<Unmarshal(whReq[2].body), Unmarshal(whReq[1].body)>>

\* ------------------------------------- properties of the running flag
\* A step of a Start() call and a step of a Stop() call.
StartCallStep == \E s \in Starters : startPc'[s] # startPc[s]
StopCallStep == \E t \in Stoppers : stopPc'[t] # stopPc[t]

\* C24 as stated: the running flag changes only on a step of a Start() or
\* a Stop() call.
C24_Original ==
    [][running' # running => (StartCallStep \/ StopCallStep)]_vars

\* C24: the running flag changes only by the CompareAndSwap of Start
\* (false to true), by Start giving up after a failed deleteWebhook, by
\* the CompareAndSwap of Stop, and by the deferred Store(false) of a poll
\* loop that returns; a successful poll, a failed poll, a backoff sleep and
\* a context cancellation do not change it by themselves.
C24_RunningChanges ==
    [][running' # running =>
          \/ \E s \in Starters :
                /\ startPc[s] = "idle" /\ startPc'[s] \in {"delete", "spawn"}
                /\ running'
          \/ \E s \in Starters :
                /\ startPc[s] = "delete" /\ startPc'[s] = "ret"
                /\ ~running'
          \/ \E t \in Stoppers :
                /\ stopPc[t] = "idle" /\ stopPc'[t] = "close"
                /\ ~running'
          \/ \E s \in Starters :
                /\ loopPc[s] = "defer_store" /\ loopPc'[s] = "defer_done"
                /\ ~running']_vars

\* A poll loop has returned and cleared the flag although Stop() was never
\* called.
C24_Witness ==
    /\ ~running
    /\ \A t \in Stoppers : stopPc[t] = "idle"
    /\ \E s \in Starters :
          /\ startRes[s] = "nil"
          /\ loopPc[s] = "exited"
          /\ \A o \in Starters \ {s} : startPc[o] = "idle"

\* C25: at most one poll loop of the client is alive at a time.
C25_AtMostOneLoop ==
    Cardinality({s \in Starters : LoopAlive(s)}) <= 1

\* C27: when a Start() call spawns its poll loop (the call then returns
\* nil) and no other loop is alive, no poll of the new run has failed yet:
\* the consecutive-error count is 0 and, unless a Stop() has already
\* cleared the flag, the client is healthy.
SpawnStep(s) == startPc[s] = "spawn" /\ startPc'[s] = "spawned"

C27_HealthyAfterStart ==
    [][\A s \in Starters :
          (SpawnStep(s) /\ \A o \in Starters \ {s} : ~LoopAlive(o)) =>
             /\ ConsecutiveErrors' = 0
             /\ Running' => IsHealthy']_vars

\* --------------------------------------------- properties of the pool
\* The goroutines between bufferPool.Get and the end of the guarded
\* function: at the body read or at the decode and forward.
Ingesting == {r \in Handlers : whPc[r] \in {"read", "forward"}}

\* C29: a goroutine holds a pool buffer exactly while it is between the
\* body read and the forward; a request that has returned, on whatever
\* path, holds none; no buffer is held twice; so the buffers outstanding
\* are never more than the requests between body read and forward.  And a
\* buffer is taken only on the step that leads to the body read.
C29_BufferScoped ==
    [][/\ \A r \in Handlers :
             /\ whBuf[r] # 0 <=> r \in Ingesting
             /\ (whBuf[r] = 0 /\ whBuf'[r] # 0) =>
                   whPc[r] = "before" /\ whPc'[r] = "read"
             /\ whPc'[r] \in {"after", "done"} => whBuf'[r] = 0
       /\ \A r, x \in Ingesting : r # x => whBuf[r] # whBuf[x]
       /\ Cardinality(HeldBuffers) <= Cardinality(Ingesting)]_vars

\* Requests have left on different paths with their buffers returned: one
\* succeeded, one ended on a read error and one on invalid JSON, and
\* nothing is held.
C29_Witness ==
    /\ \E r \in Handlers : \E x \in Handlers \ {r} :
          /\ Answered(r) /\ whErr[r] = "ErrInvalidJSON"
          /\ Answered(x) /\ whErr[x] = "ErrBodyReadFailed"
    /\ Len(whUpdates) = 1
    /\ HeldBuffers = {}

\* ------------------------------------------- properties of the accessors
\* C21: no state has a caller about to load a field of the polling session
\* while a poll loop is about to store to it, unless the field is atomic.
C21_NoDataRace ==
    \A acc \in Accessors : obsPc = acc => RacingLoops(acc) = {}

\* -------------------------------------------------- properties of the retry
\* A platform rejection: a decoded response with ok=false and its error_code.
PlatformRejected(e) == e.Description = "description"

\* The loop wakes from the backoff of a failed poll and polls again.
RetryStep(s) == loopPc[s] = "backoff" /\ loopPc'[s] = "check"

\* C23: whenever a poll loop wakes from its backoff to poll again, the
\* failure it slept on is not a platform rejection, or it is a retryable one
\* (error code 429 or 500-504): a non-retryable rejection is not retried.
C23_RetryOnlyRetryable ==
    [][\A s \in Starters :
          RetryStep(s) => (PlatformRejected(lastErr[s]) => IsRetryable(lastErr[s]))]_vars

\* ------------------------------------------------ properties of a restart
\* Poll loop s returns from one of its selects on the stop signal alone:
\* its ctx is not cancelled and it has not reached the error ceiling.
StoppedBySignal(s) ==
    /\ loopPc[s] \in {"check", "backoff"}
    /\ loopPc'[s] = "defer_store"
    /\ ~ctxDone[s]
    /\ ~fatal'[s]

\* C26: the poll loop of a Start() call that won the CompareAndSwap ends
\* only by a cancelled context, by the error ceiling, or by a Stop() that
\* was in progress at or called after that Start(): once Start() has
\* succeeded the client keeps polling until the next Stop().
C26_PollsUntilNextStop ==
    [][\A s \in Starters : StoppedBySignal(s) => stopSince[s]]_vars

\* --------------------------------------------- properties of the payload
\* The payload variants of a TelegramUpdate that are populated.
Populated(u) ==
    {f \in {"Message", "EditedMessage", "CallbackQuery"} : u[f]}

\* C28: every update on the handler's Updates channel has at most one of
\* Message, EditedMessage and CallbackQuery populated.
C28_AtMostOneVariant ==
    \A i \in 1..Len(whUpdates) : Cardinality(Populated(whUpdates[i])) <= 1

\* ------------------------------------------------- properties of backoff
\* C22 as stated: while the cap is not reached, the delay returned for an
\* error count is at least the delay returned for the count before it, and
\* no returned delay exceeds 1.25 x maxDelay.
C22_Original ==
    /\ (attempt >= 2 /\ ~Capped(attempt)) => delay >= prevDelay
    /\ attempt >= 1 => 4 * delay <= 5 * retryMaxDelay

\* C22: the delay before jitter, min(maxDelay, initialDelay x
\* backoffFactor^(n-1)), is non-decreasing in the error count n and at most
\* maxDelay; the delay returned for n is at least that delay (truncated to a
\* whole tick) and less than 1.25 times it, hence at most 1.25 x maxDelay.
C22_BackoffBounds ==
    attempt >= 1 =>
        /\ attempt >= 2 =>
              BaseNum(attempt - 1) * ExpDen(attempt)
                  <= BaseNum(attempt) * ExpDen(attempt - 1)
        /\ BaseNum(attempt) <= retryMaxDelay * ExpDen(attempt)
        /\ BaseNum(attempt) \div ExpDen(attempt) <= delay
        /\ 4 * delay * ExpDen(attempt) < 5 * BaseNum(attempt)
        /\ 4 * delay <= 5 * retryMaxDelay

\* C22 witness: the factor 1.1 with a jitter of up to a quarter: the delay
\* returned for the third error is shorter than the one returned for the
\* second, although the cap is not reached, and it is above its base delay.
C22_Witness ==
    /\ attempt = 3
    /\ retryBackoffFactor = 11
    /\ ~Capped(attempt)
    /\ delay < prevDelay
    /\ delay > BaseNum(attempt) \div ExpDen(attempt)

\* ------------------------------------------ properties of the web server
\* A health probe is answered; Shutdown is called; Shutdown returns.
ProbeStep == probes' = probes + 1
ShutdownCallStep == srvPc = "sleep" /\ srvPc' = "shutdown"
ShutdownReturnStep == srvPc = "shutdown" /\ srvPc' = "returned"

\* C30: a probe of /healthz or /readyz is answered 200 as long as the
\* context is not cancelled and 503 from the moment the shutting-down flag
\* is set; the flag is set only after cancellation; Shutdown is called only
\* with the flag set and the drain delay elapsed, and it returns within
\* ShutdownTimeout, with nil only when no request is in flight.
C30_ShutdownOrder ==
    [][/\ ProbeStep =>
            /\ probePath' \in ProbePaths
            /\ ~srvCtxDone => probeStatus' = 200
            /\ isShuttingDown => probeStatus' = 503
            /\ probeStatus' \in {200, 503}
       /\ (isShuttingDown' /\ ~isShuttingDown) => (srvCtxDone /\ srvPc = "serve")
       /\ isShuttingDown => isShuttingDown'
       /\ ShutdownCallStep => (isShuttingDown /\ drainClock = DrainDelay)
       /\ ShutdownReturnStep =>
            /\ shutdownClock <= ShutdownTimeout
            /\ srvResult' = "nil" => conns = 0
            /\ srvResult' = "ErrShutdown" => shutdownClock = ShutdownTimeout
       /\ srvPc' = "shutdown" => (isShuttingDown' /\ drainClock' = DrainDelay)]_vars

\* C30 witness: two probes were answered, the last one 503 after the flag
\* was set; the drain delay was slept, and Shutdown ran into its timeout
\* with a request still in flight.
C30_Witness ==
    /\ srvPc = "returned"
    /\ srvResult = "ErrShutdown"
    /\ probes = 2
    /\ probeStatus = 503
    /\ drainClock = DrainDelay
    /\ shutdownClock = ShutdownTimeout
    /\ conns = 1

\* ------------------------------------- properties of the validation order
\* The status of the first check that request q fails, in the order host,
\* secret, method, body; 0 when it fails none.
FirstFailing(q) ==
    IF q.host # AllowedHost THEN 403
    ELSE IF q.secret # SecretToken THEN 401
    ELSE IF q.method # "POST" THEN 405
    ELSE IF q.body.kind # "json" THEN 400
    ELSE 0

\* Request q fails the host, the secret or the method check.
FailsHeader(q) == FirstFailing(q) \in {403, 401, 405}

\* The response to the request of goroutine r is written.
AnswerStep(r) == whPc[r] = "after" /\ whPc'[r] = "done"

\* C31: a request that the breaker lets through is answered with the status
\* of the first check it fails in the order host (403), secret (401),
\* method (405), body (400), whatever later checks it fails as well; and a
\* request that fails host, secret or method never takes a buffer and never
\* reaches the body read.
C31_ValidationOrder ==
    [][\A r \in Handlers :
          /\ (AnswerStep(r) /\ FirstFailing(whReq[r]) # 0) =>
                whResp'[r] = FirstFailing(whReq[r])
          /\ (whPc'[r] \in {"read", "forward", "after"} /\ FailsHeader(whReq'[r])) =>
                /\ whPc'[r] = "after"
                /\ whBuf'[r] = 0
                /\ bufData' = bufData]_vars

\* C31 witness: a request with a foreign host, a wrong secret, the method
\* GET and a body that does not parse was answered 403 and holds no buffer.
C31_Witness ==
    /\ whPc[1] = "done"
    /\ whReq[1].host # AllowedHost
    /\ whReq[1].secret # SecretToken
    /\ whReq[1].method = "GET"
    /\ whReq[1].body.kind = "garbage"
    /\ whResp[1] = 403
    /\ whErr[1] = "ErrForbidden"
    /\ whBuf[1] = 0

\* ------------------------------- properties of Start with webhook deletion
\* Start call s is inside DeleteWebhookWithClient and no other Start call
\* has won the flag and no poll loop is alive: whatever the flag says, it
\* says on account of the pending withdrawal.
WithdrawalPending(s) ==
    /\ startPc[s] = "delete"
    /\ \A x \in Starters \ {s} : ~StartWon(x)
    /\ \A x \in Starters : ~LoopAlive(x)

\* C32: with webhook deletion configured the client is flipped to Running
\* only after the withdrawal call has succeeded: while the call is pending,
\* and after it has failed, Running() and IsHealthy() are false, and a
\* concurrent Start() is not answered ErrPollingAlreadyRunning on account
\* of the pending call.
C32_RunningAfterWithdrawal ==
    /\ [](\A s \in Starters : WithdrawalPending(s) => (~Running /\ ~IsHealthy))
    /\ [][\A s, x \in Starters :
             (WithdrawalPending(s) /\ StartCASStep(x)) =>
                 startRes'[x] # "ErrPollingAlreadyRunning"]_vars
    /\ [][\A s \in Starters :
             (WithdrawalPending(s) /\ startRes'[s] = "ErrDeleteWebhook") =>
                 (~Running' /\ ~IsHealthy')]_vars

\* ------------------------------------ properties of the polling breaker
\* The RPC of loop s returns on this step.
RpcReturnStep(s) == loopPc[s] = "rpc" /\ loopPc'[s] # "rpc"

\* The breaker goes from Closed to Open on this step.
TripStep == brState = "closed" /\ brState' = "open"

\* C33: the polling breaker goes from Closed to Open exactly on the return
\* of a poll RPC of the current interval that failed and with which the
\* interval has at least 3 requests of which at least 60% failed; with
\* fewer than 3 requests it does not open, and a failure recorded in Closed
\* that leaves the breaker Closed leaves it below that threshold.
C33_TripThreshold ==
    [][/\ TripStep =>
            \E s \in Starters :
               /\ RpcReturnStep(s)
               /\ ~stale[s]
               /\ consecutiveErrors' = consecutiveErrors + 1
               /\ brCounts.Requests >= 3
               /\ 10 * (brCounts.TotalFailures + 1) >= 6 * brCounts.Requests
       /\ (brState = "closed" /\ brState' = "closed"
              /\ brCounts' = OnFailure(brCounts)) =>
            \/ brCounts'.Requests < 3
            \/ 10 * brCounts'.TotalFailures < 6 * brCounts'.Requests]_vars

\* C33 witness: the third poll of the interval failed at the transport
\* after one failure and one success: two of three requests failed and the
\* breaker is Open.
C33_Witness ==
    /\ brState = "open"
    /\ polls = 3
    /\ consecutiveErrors = 1
    /\ loopPc[1] = "backoff"
    /\ lastErr[1] = RequestFailed

\* ------------------------------- properties of what the breaker counts
\* Outcomes with HTTP status 200 whose body does not decode or carries
\* ok=false.
ApplicationFailures == Failures({"decode", "notok"})

\* The breaker records a success on this step: the counts of a success in
\* the same state, or the success that closes a HalfOpen breaker.
RecordedSuccess ==
    \/ brState' = brState /\ brCounts' = OnSuccess(brCounts)
    \/ brState = "halfopen" /\ brState' = "closed" /\ brCounts' = ZeroCounts

\* The breaker records a failure on this step.
RecordedFailure ==
    \/ brState' = brState /\ brCounts' = OnFailure(brCounts)
    \/ brState \in {"closed", "halfopen"} /\ brState' = "open"

\* C34 as stated: a poll answered 200 whose body does not decode or carries
\* ok=false is recorded by the breaker as a success, increments the
\* consecutive-error count and sends the loop into its backoff sleep.
C34_Original ==
    [][\A s \in Starters : \A o \in ApplicationFailures :
          RpcOutcome(s, o) =>
             /\ ~stale[s] => RecordedSuccess
             /\ consecutiveErrors' = consecutiveErrors + 1
             /\ loopPc'[s] = "backoff"]_vars

\* C34: the breaker counts the transport and the HTTP status only.  A poll
\* of the current interval answered 200 whose body does not decode or
\* carries ok=false is recorded as a success and never opens the breaker; a
\* transport error or a non-200 status is recorded as a failure.  Either
\* way the consecutive-error count goes up by one and the loop goes to its
\* backoff sleep, unless the count has reached maxErrors > 0, in which case
\* the loop returns without sleeping.
C34_BreakerCountsHttpOnly ==
    [][\A s \in Starters :
          /\ \A o \in ApplicationFailures :
                RpcOutcome(s, o) =>
                   /\ ~stale[s] => RecordedSuccess
                   /\ stale[s] => UNCHANGED <<brState, brCounts>>
                   /\ brState' = "open" => brState = "open"
          /\ \A o \in Failures({"network", "status"}) :
                (RpcOutcome(s, o) /\ ~stale[s]) => RecordedFailure
          /\ \A o \in Failures(FailKinds) :
                RpcOutcome(s, o) =>
                   /\ consecutiveErrors' = consecutiveErrors + 1
                   /\ IF maxErrors > 0 /\ consecutiveErrors' >= maxErrors
                      THEN loopPc'[s] = "defer_store" /\ fatal'[s]
                      ELSE loopPc'[s] = "backoff"]_vars

\* C34 witness: the first poll was answered 200 with a body that does not
\* decode: the breaker has one success and no failure, the error count is 1
\* and the loop sleeps on "failed to parse response".
C34_Witness ==
    /\ brState = "closed"
    /\ brCounts.Requests = 1
    /\ brCounts.TotalSuccesses = 1
    /\ brCounts.TotalFailures = 0
    /\ consecutiveErrors = 1
    /\ loopPc[1] = "backoff"
    /\ lastErr[1] = ParseFailed

\* ------------------------- properties of what the webhook breaker counts
\* The webhook breaker records a success, or a failure, on this step.
WhRecordedSuccess ==
    \/ whBrState' = whBrState /\ whBrCounts' = OnSuccess(whBrCounts)
    \/ whBrState = "halfopen" /\ whBrState' = "closed" /\ whBrCounts' = ZeroCounts

WhRecordedFailure ==
    \/ whBrState' = whBrState /\ whBrCounts' = OnFailure(whBrCounts)
    \/ whBrState \in {"closed", "halfopen"} /\ whBrState' = "open"
          /\ whBrCounts' = ZeroCounts

\* Positions of ServeHTTP: the breaker admits the request of goroutine r;
\* the limiter or the breaker turns it away; the clock of the breaker moves.
WhAdmitStep(r) == whPc[r] = "before" /\ whPc'[r] \in {"read", "after"}
WhTurnedAwayStep(r) ==
    /\ whPc'[r] = "done"
    /\ \/ whPc[r] = "before"
       \/ whPc[r] \in {"idle", "done"} /\ whReq'[r] # NoRequest /\ served' = served + 1
WhClockStep == WhBreakerIntervalExpire \/ WhBreakerTimeoutExpire

\* What does not depend on the generation: admission adds one to Requests
\* and to nothing else; a request answered 429 or turned away by the
\* breaker leaves the breaker as it was; between admission and response the
\* breaker is changed by nothing but its clock and the responses.
WhCountedOnce ==
    /\ \A r \in Handlers :
          /\ WhAdmitStep(r) =>
                (whBrCounts' = OnRequest(whBrCounts) /\ whBrState' = whBrState)
          /\ WhTurnedAwayStep(r) =>
                /\ whResp'[r] \in {429, 500}
                /\ whResp'[r] = 429 <=> whPc[r] # "before"
                /\ UNCHANGED <<whBrState, whBrCounts>>
    /\ (whBrCounts' # whBrCounts \/ whBrState' # whBrState) =>
          \/ WhClockStep
          \/ \E r \in Handlers : WhAdmitStep(r) \/ AnswerStep(r)

\* C35 as stated: every admitted request is counted once, as a success if
\* and only if it is answered 200 and as a failure otherwise.
C35_Original ==
    [][/\ WhCountedOnce
       /\ \A r \in Handlers :
             AnswerStep(r) =>
                IF whResp'[r] = 200 THEN WhRecordedSuccess ELSE WhRecordedFailure]_vars

\* C35: every request the breaker admits adds one to Requests; when it is
\* answered, and the breaker is still in the generation that admitted it,
\* its outcome is recorded once: a success if and only if the answer is
\* 200, a failure for 403, 401, 405, 500 (body read), 400 and 503.  When
\* the breaker has begun a new generation in between (its Interval rolled
\* over or it changed state), the outcome is not recorded at all.  Requests
\* answered 429 or turned away by the breaker change no count.
C35_CountedOnce ==
    [][/\ WhCountedOnce
       /\ \A r \in Handlers :
             AnswerStep(r) =>
                /\ whResp'[r] \in {200, 403, 401, 405, 500, 400, 503}
                /\ whResp'[r] = 200 <=> whErr[r] = "nil"
                /\ IF whStale[r]
                   THEN UNCHANGED <<whBrState, whBrCounts>>
                   ELSE IF whResp'[r] = 200 THEN WhRecordedSuccess
                                            ELSE WhRecordedFailure]_vars

\* C35 witness: of three requests one was answered 200, one failed inside
\* the breaker and the third was answered 429: the breaker has counted two
\* requests, one success and one failure.
C35_Witness ==
    /\ served = 3
    /\ whPc[1] = "done"
    /\ whResp[1] = 429
    /\ whBrState = "closed"
    /\ whBrCounts.Requests = 2
    /\ whBrCounts.TotalSuccesses = 1
    /\ whBrCounts.TotalFailures = 1

\* ------------------------------------- properties of stopping the loop
\* Loop s has been told to stop: the signal is closed or its ctx cancelled.
ToldToStop(s) == stopChClosed \/ ctxDone[s]

\* Loop s begins to return on this step.
LoopExitStep(s) == loopPc[s] # "defer_store" /\ loopPc'[s] = "defer_store"

C37_AtMostOnce ==
    [][\A s \in Starters :
          (SendStep(s) /\ orderly) =>
             /\ Head(batch[s]) # lastSent
             /\ \A i \in 1..Len(updates) : updates[i] # Head(batch[s])]_vars

\* ------------------------------------- properties of concurrent polling
\* Loop s has a getUpdates RPC in flight, or is at the top of an iteration
\* that will issue one: neither stopCh nor its ctx tells it to return.
Polling(s) ==
    \/ loopPc[s] = "rpc"
    \/ loopPc[s] = "check" /\ ~ToldToStop(s)

\* C38: at every moment at most one poll loop of the client has a
\* getUpdates RPC in flight or is about to issue one.
C38_AtMostOnePoller ==
    Cardinality({s \in Starters : Polling(s)}) <= 1

\* C38, the RPCs alone: no two getUpdates RPCs of the client are in flight
\* at the same time.
C38_NoConcurrentRpc ==
    Cardinality({s \in Starters : loopPc[s] = "rpc"}) <= 1

\* ------------------------------------ properties of rejected requests
\* Request q passes the host, secret and method checks and its body parses.
WellFormed(q) == FirstFailing(q) = 0 /\ q # NoRequest

\* C39: the outcome of a correctly authenticated, well-formed request does
\* not depend on earlier requests that failed host, secret or method
\* validation.  Nobody receives from the Sink here, so while the Sink is
\* empty no well-formed request has been served and every earlier request
\* was a rejected one: as on a fresh handler, the well-formed request is
\* answered 200 and its update is placed, so it is never found answered
\* with the Sink still empty.
C39_NonInterference ==
    \A r \in Handlers :
       (Answered(r) /\ WellFormed(whReq[r])) =>
          /\ whUpdates # <<>>
          /\ whResp[r] \in {200, 503}
          /\ whResp[r] = 200 <=> placed[r] = <<Unmarshal(whReq[r].body)>>
          /\ whResp[r] = 503 => Len(whUpdates) = WhSinkCap

\* C39, seen from the breaker: a well-formed request is not turned away by
\* the breaker while every request before it was a rejected one.
C39_BreakerUnaffected ==
    \A r \in Handlers :
       (Answered(r) /\ WellFormed(whReq[r]) /\ whUpdates = <<>>) =>
          whErr[r] \notin BreakerErrors

\* ------------------------------------------- properties of the Client
\* Client.Start call k, and Client.Stop call t, returns on this step.
ClientStartReturns(k) == cStartPc[k] # "ret" /\ cStartPc'[k] = "ret"
ClientStopReturns(t) == cStopPc[t] # "ret" /\ cStopPc'[t] = "ret"

\* C40, first part: at most one poll loop feeds Updates() at a time.
C40_OneLoopFeeds ==
    Cardinality({k \in Starters : InstAlive(k)}) <= 1

\* C40, second part: a Client.Start() made while a poll loop of the Client
\* is running does not return nil and leaves no second loop.
C40_SecondStartRejected ==
    [][\A k \in Starters :
          (ClientStartReturns(k) /\ \E o \in Starters \ {k} : InstAlive(o)) =>
             (cStartRes'[k] # "nil" /\ ~InstAlive(k)')]_vars

\* C40, third part: when Client.Stop() returns, no poll loop that the
\* Client created is running.
C40_StopStopsAll ==
    [][\A t \in Stoppers :
          ClientStopReturns(t) => \A k \in Starters : ~InstAlive(k)']_vars

\* C40: across any sequence of Client.Start() and Client.Stop() calls at
\* most one poll loop feeds Updates() at a time: a Client.Start() while
\* polling is running is rejected and spawns no second loop, and after
\* Client.Stop() has returned no poll loop created by the Client runs.
C40_OneLoopPerClient ==
    /\ []C40_OneLoopFeeds
    /\ C40_SecondStartRejected
    /\ C40_StopStopsAll

====
